---- MODULE Spec2Model ----
(***************************************************************************)
(* Model of streamlit_app.py: ProductBenchmarkAnalyzer.                    *)
(*                                                                         *)
(* Texts are TLA+ strings, read character by character (SubSeq), so that   *)
(* strip(), lower(), startswith() and the regular expressions of the code  *)
(* are computed, not assumed.  A parsed document (the BeautifulSoup tree)  *)
(* is a sequence of element nodes in document order; each node names its   *)
(* parent (0: the document root), its tag, the attributes the selectors    *)
(* read, and the text that precedes its child elements.                    *)
(***************************************************************************)
EXTENDS Integers, Sequences, FiniteSets, TLC

VARIABLES
    soup,          \* the parsed document handed to the _extract_* methods
    product_data,  \* what extract_content_from_url returned (NoData: nothing yet, None: failure)
    all_data,      \* the collection of records handed to the analyze_* methods
    counters,      \* the Counter each analyze_* method returned (NoData before the call)
    pc,            \* the position of the run
    out,           \* what the last call of a pure helper returned (NoData before the call)
    stop_words,    \* self.stop_words of the analyzer
    urls_input,    \* main: the lines of the text area (urls_input.split('\n'))
    urls,          \* main: the URLs the loop goes through
    url_index,     \* main: how many URLs the loop has processed
    failed_count   \* main: the URLs that gave no record

\* main has not been given any URL
NoUrls ==
    /\ urls_input = <<>>
    /\ urls = <<>>
    /\ url_index = 0
    /\ failed_count = 0

vars == <<soup, product_data, all_data, counters, pc, out, stop_words,
          urls_input, urls, url_index, failed_count>>

NoData == "NoData"
None == "None"

(***************************************************************************)
(* Bounds of the model.                                                    *)
(***************************************************************************)
MaxNodes == 3      \* fragments per enumerated document
MaxPermLen == 3    \* sets up to this size are iterated in every order
Surplus == 2       \* candidates beyond a cap in the generated long documents
MaxPieces == 3     \* pieces a generated feature text is made of
MaxRecords == 2    \* records in an enumerated collection

(***************************************************************************)
(* Strings.                                                                *)
(***************************************************************************)
Char(s, i) == SubSeq(s, i, i)

UpperChars == "ABCDEFGHIJKLMNOPQRSTUVWXYZÁÉÍÓÚÑÜÇ"
LowerChars == "abcdefghijklmnopqrstuvwxyzáéíóúñüç"
Digits == {"0", "1", "2", "3", "4", "5", "6", "7", "8", "9"}
Whitespace == {" ", "\n", "\t"}

\* str.lower() of one character
LowerMap == [c \in {Char(UpperChars, i) : i \in 1..Len(UpperChars)} |->
               Char(LowerChars, CHOOSE i \in 1..Len(UpperChars) : Char(UpperChars, i) = c)]

LowerChar(c) == IF c \in DOMAIN LowerMap THEN LowerMap[c] ELSE c

\* the characters lo..hi of s, lower-cased (halving keeps the evaluation shallow)
RECURSIVE LowerRange(_, _, _)
LowerRange(s, lo, hi) ==
    IF lo > hi THEN ""
    ELSE IF lo = hi THEN LowerChar(Char(s, lo))
    ELSE LET mid == (lo + hi) \div 2
         IN  LowerRange(s, lo, mid) \o LowerRange(s, mid + 1, hi)

\* str.lower()
Lower(s) == LowerRange(s, 1, Len(s))

\* the first position from i on, and the last position from i back, that holds no
\* whitespace
RECURSIVE FirstKept(_, _)
FirstKept(s, i) ==
    IF i > Len(s) \/ Char(s, i) \notin Whitespace THEN i ELSE FirstKept(s, i + 1)

RECURSIVE LastKept(_, _)
LastKept(s, i) ==
    IF i < 1 \/ Char(s, i) \notin Whitespace THEN i ELSE LastKept(s, i - 1)

\* str.strip(): leading and trailing whitespace removed
Strip(s) ==
    LET lo == FirstKept(s, 1)
    IN  IF lo > Len(s) THEN "" ELSE SubSeq(s, lo, LastKept(s, Len(s)))

\* str.startswith(p)
StartsWith(s, p) == Len(s) >= Len(p) /\ SubSeq(s, 1, Len(p)) = p

\* str.startswith((p1, p2, ...))
StartsWithAny(s, ps) == \E p \in ps : StartsWith(s, p)

\* sub in s
Contains(s, sub) ==
    \E i \in 1..(Len(s) - Len(sub) + 1) : SubSeq(s, i, i + Len(sub) - 1) = sub

\* re.match(r'^\d+$', s): digits only; '$' also matches before one final newline
MatchesDigitsOnly(s) ==
    LET t == IF Len(s) > 0 /\ Char(s, Len(s)) = "\n" THEN SubSeq(s, 1, Len(s) - 1) ELSE s
    IN  Len(t) > 0 /\ \A i \in 1..Len(t) : Char(t, i) \in Digits

\* a text of n copies of the character c
RECURSIVE Rep(_, _)
Rep(c, n) ==
    IF n <= 0 THEN ""
    ELSE IF n = 1 THEN c
    ELSE LET h == Rep(c, n \div 2) IN h \o h \o (IF n % 2 = 1 THEN c ELSE "")

\* the whitespace-separated words of a class attribute
RECURSIVE SplitFrom(_, _, _)
SplitFrom(s, i, cur) ==
    IF i > Len(s) THEN (IF cur = "" THEN <<>> ELSE <<cur>>)
    ELSE IF Char(s, i) \in Whitespace
         THEN (IF cur = "" THEN <<>> ELSE <<cur>>) \o SplitFrom(s, i + 1, "")
         ELSE SplitFrom(s, i + 1, cur \o Char(s, i))

SplitWords(s) == SplitFrom(s, 1, "")

Range(f) == {f[i] : i \in DOMAIN f}

(***************************************************************************)
(* The parsed document.                                                    *)
(***************************************************************************)
\* an element: tag, the attributes read by the selectors, own text, parent
El(tag, class, text, parent) ==
    [tag |-> tag, class |-> class, id |-> "", testid |-> "", type |-> "",
     name |-> "", content |-> "", text |-> text, parent |-> parent]

\* the chain of ancestors of node i, nearest first
RECURSIVE Ancestors(_, _)
Ancestors(doc, i) ==
    IF doc[i].parent = 0 THEN <<>>
    ELSE <<doc[i].parent>> \o Ancestors(doc, doc[i].parent)

\* element.get_text(): the element's text followed by its descendants', in document order
RECURSIVE TextFrom(_, _, _)
TextFrom(doc, i, j) ==
    IF j > Len(doc) THEN ""
    ELSE (IF i \in Range(Ancestors(doc, j)) THEN doc[j].text ELSE "") \o TextFrom(doc, i, j + 1)

GetText(doc, i) == doc[i].text \o TextFrom(doc, i, i + 1)

\* A fragment is a small subtree: a sequence of elements whose parent is 0 (the
\* place the fragment is attached to) or an earlier element of the fragment.
\* Attach(doc, frag, p): doc followed by frag, attached under node p (0: the root)
Attach(doc, frag, p) ==
    doc \o [k \in 1..Len(frag) |->
              [frag[k] EXCEPT !.parent = IF frag[k].parent = 0 THEN p
                                         ELSE frag[k].parent + Len(doc)]]

\* where document order lets the next element go: the root, the last element, or
\* one of the last element's ancestors
ValidParents(doc) ==
    IF doc = <<>> THEN {0} ELSE {0, Len(doc)} \cup Range(Ancestors(doc, Len(doc)))

\* the documents made of k fragments of pool, every tree shape included
RECURSIVE DocsOfLen(_, _)
DocsOfLen(pool, k) ==
    IF k = 0 THEN {<<>>}
    ELSE UNION {{Attach(d, f, p) : f \in pool, p \in ValidParents(d)} :
                d \in DocsOfLen(pool, k - 1)}

Docs(pool, n) == UNION {DocsOfLen(pool, k) : k \in 0..n}

(***************************************************************************)
(* soup.select(selector): the CSS selectors the code uses.                 *)
(***************************************************************************)
\* a compound selector: tag (or "" for any) and at most one attribute test
\*   op "*=" : [attr*="val"]    op "=" : [attr="val"]    op "." : .val
Sel(tag, attr, op, val) == [tag |-> tag, attr |-> attr, op |-> op, val |-> val]
OnlyTag(tag) == Sel(tag, "", "", "")
\* a complex selector: 'anc self' (comb " "), 'prev + self' (comb "+"), or 'self' (comb "")
Simple(self) == [comb |-> "", other |-> OnlyTag(""), self |-> self]
Desc(anc, self) == [comb |-> " ", other |-> anc, self |-> self]
Adj(prev, self) == [comb |-> "+", other |-> prev, self |-> self]

Attr(node, attr) ==
    CASE attr = "class" -> node.class
      [] attr = "id" -> node.id
      [] attr = "data-testid" -> node.testid
      [] attr = "type" -> node.type
      [] attr = "name" -> node.name
      [] OTHER -> ""

MatchesCompound(node, c) ==
    /\ c.tag = "" \/ node.tag = c.tag
    /\ CASE c.op = "*=" -> Attr(node, c.attr) # "" /\ Contains(Attr(node, c.attr), c.val)
         [] c.op = "=" -> Attr(node, c.attr) = c.val
         [] c.op = "." -> c.val \in Range(SplitWords(node.class))
         [] OTHER -> TRUE

\* the element sibling just before node i (0: none)
PrevSibling(doc, i) ==
    LET sibs == {j \in 1..(i - 1) : doc[j].parent = doc[i].parent}
    IN  IF sibs = {} THEN 0 ELSE CHOOSE j \in sibs : \A k \in sibs : k <= j

Matches(doc, i, sel) ==
    /\ MatchesCompound(doc[i], sel.self)
    /\ CASE sel.comb = " " ->
              \E a \in Range(Ancestors(doc, i)) : MatchesCompound(doc[a], sel.other)
         [] sel.comb = "+" ->
              PrevSibling(doc, i) # 0 /\ MatchesCompound(doc[PrevSibling(doc, i)], sel.other)
         [] OTHER -> TRUE

\* soup.select(sel): the matching elements, each once, in document order
RECURSIVE SelectFrom(_, _, _)
SelectFrom(doc, sel, i) ==
    IF i > Len(doc) THEN <<>>
    ELSE (IF Matches(doc, i, sel) THEN <<i>> ELSE <<>>) \o SelectFrom(doc, sel, i + 1)

Select(doc, sel) == SelectFrom(doc, sel, 1)

\* element.get_text().strip()
StrippedText(doc, i) == Strip(GetText(doc, i))

(***************************************************************************)
(* _extract_title                                                          *)
(***************************************************************************)
TitleSelectors ==
    << Simple(Sel("h1", "class", "*=", "title")),
       Simple(Sel("h1", "class", "*=", "product")),
       Simple(Sel("", "data-testid", "*=", "title")),
       Simple(Sel("", "class", "*=", "product-title")),
       Simple(Sel("", "class", "*=", "product-name")),
       Simple(Sel("", "id", "*=", "title")),
       Simple(OnlyTag("h1")),
       Simple(OnlyTag("title")) >>

\* mutant: the lower bound off by one
TitleQualifiesOffByOne(text) == text # "" /\ Len(text) > 6 /\ Len(text) < 300

\* line 126: if text and len(text) > 5 and len(text) < 300
TitleQualifies(text) == text # "" /\ Len(text) > 5 /\ Len(text) < 300

\* the inner loop: the first qualifying text among elems[k..], or NoData
RECURSIVE FirstTitle(_, _, _)
FirstTitle(doc, elems, k) ==
    IF k > Len(elems) THEN NoData
    ELSE LET text == StrippedText(doc, elems[k])
         IN  IF TitleQualifies(text) THEN text ELSE FirstTitle(doc, elems, k + 1)

\* the outer loop over the selectors, from selector s on
RECURSIVE TitleFrom(_, _)
TitleFrom(doc, s) ==
    IF s > Len(TitleSelectors) THEN ""
    ELSE LET found == FirstTitle(doc, Select(doc, TitleSelectors[s]), 1)
         IN  IF found # NoData THEN found ELSE TitleFrom(doc, s + 1)

\* mutant: None instead of "" when no candidate qualifies
ExtractTitleOrNone(doc) == IF TitleFrom(doc, 1) = "" THEN None ELSE TitleFrom(doc, 1)

ExtractTitle(doc) == TitleFrom(doc, 1)

(***************************************************************************)
(* The loop shared by the list extractors:                                 *)
(*   for selector in selectors: for element in soup.select(selector):      *)
(*       text = element.get_text().strip()                                 *)
(* gives the candidate texts in selector order, then document order.       *)
(***************************************************************************)
RECURSIVE TextsOf(_, _, _)
TextsOf(doc, elems, k) ==
    IF k > Len(elems) THEN <<>>
    ELSE <<StrippedText(doc, elems[k])>> \o TextsOf(doc, elems, k + 1)

RECURSIVE CandidatesFrom(_, _, _)
CandidatesFrom(doc, sels, s) ==
    IF s > Len(sels) THEN <<>>
    ELSE TextsOf(doc, Select(doc, sels[s]), 1) \o CandidatesFrom(doc, sels, s + 1)

CandidateTexts(doc, sels) == CandidatesFrom(doc, sels, 1)

\* list[:n]
Take(seq, n) == SubSeq(seq, 1, IF Len(seq) < n THEN Len(seq) ELSE n)

(***************************************************************************)
(* _extract_features                                                       *)
(***************************************************************************)
FeatureSelectors ==
    << Desc(Sel("", "class", "*=", "feature"), OnlyTag("li")),
       Desc(Sel("", "class", "*=", "benefit"), OnlyTag("li")),
       Desc(Sel("", "class", "*=", "highlight"), OnlyTag("li")),
       Desc(Sel("", "class", "*=", "spec"), OnlyTag("li")),
       Desc(Sel("", "class", "*=", "bullet"), OnlyTag("li")),
       Desc(Sel("ul", "class", "*=", "feature"), OnlyTag("li")),
       Desc(Sel("ul", "class", "*=", "list"), OnlyTag("li")),
       Desc(Sel("", "class", ".", "features"), OnlyTag("li")),
       Desc(Sel("", "class", ".", "benefits"), OnlyTag("li")),
       Simple(Sel("div", "class", "*=", "feature")),
       Simple(Sel("span", "class", "*=", "feature")) >>

MaxFeatures == 50

\* mutant: the URL test applied to the text as written, not lower-cased
FeatureQualifiesCaseSensitive(text) ==
    /\ text # ""
    /\ Len(text) > 10
    /\ Len(text) < 500
    /\ ~MatchesDigitsOnly(text)
    /\ ~StartsWithAny(text, {"http", "www", "mailto"})

\* lines 184-188
FeatureQualifies(text) ==
    /\ text # ""
    /\ Len(text) > 10
    /\ Len(text) < 500
    /\ ~MatchesDigitsOnly(text)
    /\ ~StartsWithAny(Lower(text), {"http", "www", "mailto"})

\* set(items): the distinct items, in the order of their first insertion
RECURSIVE UniqueExact(_, _, _)
UniqueExact(features, k, seen) ==
    IF k > Len(features) THEN <<>>
    ELSE IF features[k] \notin seen
         THEN <<features[k]>> \o UniqueExact(features, k + 1, seen \cup {features[k]})
         ELSE UniqueExact(features, k + 1, seen)

\* mutant: duplicates recognised by exact text only
UniqueFeaturesCaseSensitive(features, k, seen) == UniqueExact(features, k, seen)

\* lines 192-197: seen = set(); keep a feature when feature.lower() is not in seen
RECURSIVE UniqueFeatures(_, _, _)
UniqueFeatures(features, k, seen) ==
    IF k > Len(features) THEN <<>>
    ELSE IF Lower(features[k]) \notin seen
         THEN <<features[k]>> \o UniqueFeatures(features, k + 1, seen \cup {Lower(features[k])})
         ELSE UniqueFeatures(features, k + 1, seen)

\* mutant: the cap applied one entry late
CapFeaturesLate(unique) == Take(unique, MaxFeatures + 1)

\* line 199: unique_features[:50]
CapFeatures(unique) == Take(unique, MaxFeatures)

\* lines 179-189: the qualifying candidates, in discovery order
FeatureCandidates(doc) == SelectSeq(CandidateTexts(doc, FeatureSelectors), FeatureQualifies)

ExtractFeatures(doc) == CapFeatures(UniqueFeatures(FeatureCandidates(doc), 1, {}))

(***************************************************************************)
(* _extract_categories                                                     *)
(***************************************************************************)
CategorySelectors ==
    << Desc(Sel("", "class", "*=", "breadcrumb"), OnlyTag("a")),
       Desc(Sel("", "class", "*=", "category"), OnlyTag("a")),
       Desc(Sel("", "class", "*=", "nav"), OnlyTag("a")),
       Desc(Sel("nav", "class", "*=", "breadcrumb"), OnlyTag("a")),
       Desc(Sel("", "class", ".", "breadcrumb"), OnlyTag("a")),
       Desc(Sel("", "class", ".", "category"), OnlyTag("a")),
       Desc(Sel("ol", "class", ".", "breadcrumb"), OnlyTag("a")) >>

GenericLabels == {"home", "inicio", "tienda", "shop", "store"}

\* mutant: the generic labels compared as written
CategoryQualifiesCaseSensitive(text) ==
    /\ text # ""
    /\ text \notin GenericLabels
    /\ Len(text) > 2
    /\ Len(text) < 50

\* lines 325-328
CategoryQualifies(text) ==
    /\ text # ""
    /\ Lower(text) \notin GenericLabels
    /\ Len(text) > 2
    /\ Len(text) < 50

ExtractCategories(doc) == SelectSeq(CandidateTexts(doc, CategorySelectors), CategoryQualifies)

(***************************************************************************)
(* _extract_filters                                                        *)
(***************************************************************************)
FilterSelectors ==
    << Desc(Sel("", "class", "*=", "filter"), OnlyTag("a")),
       Desc(Sel("", "class", "*=", "facet"), OnlyTag("a")),
       Desc(Sel("", "class", "*=", "refine"), OnlyTag("a")),
       Desc(Sel("", "class", "*=", "category"), OnlyTag("a")),
       Desc(OnlyTag("select"), OnlyTag("option")),
       Adj(Sel("", "type", "=", "checkbox"), OnlyTag("label")),
       Simple(Sel("", "class", "*=", "tag")),
       Simple(Sel("", "class", "*=", "badge")),
       Desc(OnlyTag("nav"), OnlyTag("a")),
       Simple(Sel("", "class", ".", "filter-option")),
       Simple(Sel("", "class", ".", "facet-option")) >>

MaxFilters == 100

\* mutant: the numeric test left out
FilterQualifiesNoNumericTest(text) ==
    /\ text # ""
    /\ Len(text) > 2
    /\ Len(text) < 80
    /\ ~StartsWithAny(Lower(text), {"http", "www"})

\* lines 297-301
FilterQualifies(text) ==
    /\ text # ""
    /\ Len(text) > 2
    /\ Len(text) < 80
    /\ ~StartsWithAny(Lower(text), {"http", "www"})
    /\ ~MatchesDigitsOnly(text)

\* lines 293-302: the qualifying candidates, duplicates included
FilterCandidates(doc) == SelectSeq(CandidateTexts(doc, FilterSelectors), FilterQualifies)

(***************************************************************************)
(* _extract_specifications                                                 *)
(***************************************************************************)
\* find_all(tags) below node i (0: the whole document), in document order
RECURSIVE FindAllFrom(_, _, _, _)
FindAllFrom(doc, i, tags, j) ==
    IF j > Len(doc) THEN <<>>
    ELSE (IF doc[j].tag \in tags /\ (i = 0 \/ i \in Range(Ancestors(doc, j)))
          THEN <<j>> ELSE <<>>) \o FindAllFrom(doc, i, tags, j + 1)

FindAll(doc, i, tags) == FindAllFrom(doc, i, tags, 1)

\* a dict in insertion order: a sequence of <<key, value>> with distinct keys
DictKeys(d) == {d[i][1] : i \in DOMAIN d}
DictGet(d, key) == d[CHOOSE i \in DOMAIN d : d[i][1] = key][2]

\* mutant: an existing key keeps its first value (setdefault)
DictPutKeepFirst(d, key, value) ==
    IF key \in DictKeys(d) THEN d ELSE Append(d, <<key, value>>)

\* specs[key] = value
DictPut(d, key, value) ==
    IF key \in DictKeys(d)
    THEN [i \in DOMAIN d |-> IF d[i][1] = key THEN <<key, value>> ELSE d[i]]
    ELSE Append(d, <<key, value>>)

\* lines 214, 224, 236: if key and value and len(key) < 100 and len(value) < 200
SpecQualifies(key, value) ==
    key # "" /\ value # "" /\ Len(key) < 100 /\ Len(value) < 200

\* lines 209-213: the rows of one table; a row of at least 2 cells gives a pair
RECURSIVE RowPairs(_, _, _)
RowPairs(doc, rows, r) ==
    IF r > Len(rows) THEN <<>>
    ELSE LET cells == FindAll(doc, rows[r], {"td", "th"})
         IN  (IF Len(cells) >= 2
              THEN << <<StrippedText(doc, cells[1]), StrippedText(doc, cells[2])>> >>
              ELSE <<>>) \o RowPairs(doc, rows, r + 1)

\* lines 206-208: every table, each with all the rows below it
RECURSIVE TablePairs(_, _, _)
TablePairs(doc, tables, t) ==
    IF t > Len(tables) THEN <<>>
    ELSE RowPairs(doc, FindAll(doc, tables[t], {"tr"}), 1) \o TablePairs(doc, tables, t + 1)

\* dt.find_next_sibling('dd'): the first later sibling that is a dd (0: none)
NextSiblingDd(doc, i) ==
    LET dds == {j \in (i + 1)..Len(doc) : doc[j].parent = doc[i].parent /\ doc[j].tag = "dd"}
    IN  IF dds = {} THEN 0 ELSE CHOOSE j \in dds : \A k \in dds : j <= k

\* lines 218-223
RECURSIVE DtPairs(_, _, _)
DtPairs(doc, dts, k) ==
    IF k > Len(dts) THEN <<>>
    ELSE LET dd == NextSiblingDd(doc, dts[k])
         IN  (IF dd # 0
              THEN << <<StrippedText(doc, dts[k]), StrippedText(doc, dd)>> >>
              ELSE <<>>) \o DtPairs(doc, dts, k + 1)

\* find_all(['div', 'span'], class_=re.compile(r'spec|attribute|property'))
RECURSIVE SpecDivsFrom(_, _)
SpecDivsFrom(doc, j) ==
    IF j > Len(doc) THEN <<>>
    ELSE (IF /\ doc[j].tag \in {"div", "span"}
             /\ \E w \in {"spec", "attribute", "property"} : Contains(doc[j].class, w)
          THEN <<j>> ELSE <<>>) \o SpecDivsFrom(doc, j + 1)

\* lines 230-235: text.split(':', 1), both parts stripped
RECURSIVE DivPairs(_, _, _)
DivPairs(doc, divs, k) ==
    IF k > Len(divs) THEN <<>>
    ELSE LET text == StrippedText(doc, divs[k])
             colons == {i \in 1..Len(text) : Char(text, i) = ":"}
         IN  (IF colons # {}
              THEN LET c == CHOOSE i \in colons : \A j \in colons : i <= j
                   IN  << <<Strip(SubSeq(text, 1, c - 1)),
                            Strip(SubSeq(text, c + 1, Len(text)))>> >>
              ELSE <<>>) \o DivPairs(doc, divs, k + 1)

\* the key/value pairs in the order the method reads them: tables, dt/dd, div/span
SpecPairs(doc) ==
    TablePairs(doc, FindAll(doc, 0, {"table"}), 1)
      \o DtPairs(doc, FindAll(doc, 0, {"dt"}), 1)
      \o DivPairs(doc, SpecDivsFrom(doc, 1), 1)

\* the stores of the three loops, applied to specs = {}
RECURSIVE StorePairs(_, _, _)
StorePairs(specs, pairs, k) ==
    IF k > Len(pairs) THEN specs
    ELSE StorePairs(IF SpecQualifies(pairs[k][1], pairs[k][2])
                    THEN DictPut(specs, pairs[k][1], pairs[k][2])
                    ELSE specs,
                    pairs, k + 1)

ExtractSpecifications(doc) == StorePairs(<<>>, SpecPairs(doc), 1)

(***************************************************************************)
(* _extract_price                                                          *)
(***************************************************************************)
PriceSelectors ==
    << Simple(Sel("", "class", "*=", "price")),
       Simple(Sel("", "class", "*=", "cost")),
       Simple(Sel("", "class", "*=", "amount")),
       Simple(Sel("", "data-testid", "*=", "price")),
       Simple(Sel("", "id", "*=", "price")),
       Simple(Sel("", "class", ".", "price")),
       Simple(Sel("", "class", ".", "cost")),
       Simple(Sel("", "class", ".", "amount")) >>

CurrencySymbols == {"€", "$", "£", "¥"}
AmountChars == Digits \cup {","}

\* The six patterns of lines 259-266, compiled with re.IGNORECASE.  Each is the
\* amount [\d,]+\.?\d* with a currency mark before it (symbolFirst) or, after \s*,
\* behind it: a symbol of [€$£¥] (lit = "") or a word lit with one optional last
\* letter opt.
PricePatterns ==
    << [symbolFirst |-> TRUE,  lit |-> "",       opt |-> ""],
       [symbolFirst |-> FALSE, lit |-> "",       opt |-> ""],
       [symbolFirst |-> FALSE, lit |-> "eu",     opt |-> "r"],
       [symbolFirst |-> FALSE, lit |-> "us",     opt |-> "d"],
       [symbolFirst |-> FALSE, lit |-> "euro",   opt |-> "s"],
       [symbolFirst |-> FALSE, lit |-> "dólare", opt |-> "s"] >>

\* the length of the longest run of characters of set that starts at position p
RECURSIVE RunLen(_, _, _)
RunLen(s, p, set) ==
    IF p > Len(s) \/ Char(s, p) \notin set THEN 0 ELSE 1 + RunLen(s, p + 1, set)

MaxOf(S) == CHOOSE x \in S : \A y \in S : y <= x
MinOf(S) == CHOOSE x \in S : \A y \in S : x <= y

\* the length the currency mark of pat matches at position q (0: no match); the
\* optional letter is taken when it is there (greedy)
MarkLen(s, q, pat) ==
    IF pat.lit = ""
    THEN (IF q <= Len(s) /\ Char(s, q) \in CurrencySymbols THEN 1 ELSE 0)
    ELSE LET n == Len(pat.lit)
         IN  IF q + n - 1 <= Len(s) /\ Lower(SubSeq(s, q, q + n - 1)) = pat.lit
             THEN (IF q + n <= Len(s) /\ Lower(Char(s, q + n)) = pat.opt THEN n + 1 ELSE n)
             ELSE 0

\* The backtracking of [\d,]+ \.? \d* \s* mark from position p: each part takes
\* the most it can for which the rest still matches.
SpaceChoices(s, q, pat) ==
    {w \in 0..RunLen(s, q, Whitespace) : MarkLen(s, q + w, pat) # 0}
DecimalChoices(s, q, pat) ==
    {b \in 0..RunLen(s, q, Digits) : SpaceChoices(s, q + b, pat) # {}}
DotChoices(s, q, pat) ==
    {d \in {0, 1} : (d = 1 => q <= Len(s) /\ Char(s, q) = ".") /\ DecimalChoices(s, q + d, pat) # {}}
AmountChoices(s, p, pat) ==
    {a \in 1..RunLen(s, p, AmountChars) : DotChoices(s, p + a, pat) # {}}

\* the position just after the match of pat that starts at p (0: no match at p)
MatchEnd(s, p, pat) ==
    IF pat.symbolFirst
    THEN IF p <= Len(s) /\ Char(s, p) \in CurrencySymbols
         THEN LET q == p + 1 + RunLen(s, p + 1, Whitespace)
                  a == RunLen(s, q, AmountChars)
                  d == IF q + a <= Len(s) /\ Char(s, q + a) = "." THEN 1 ELSE 0
              IN  IF a = 0 THEN 0 ELSE q + a + d + RunLen(s, q + a + d, Digits)
         ELSE 0
    ELSE IF AmountChoices(s, p, pat) = {} THEN 0
         ELSE LET a == MaxOf(AmountChoices(s, p, pat))
                  d == MaxOf(DotChoices(s, p + a, pat))
                  b == MaxOf(DecimalChoices(s, p + a + d, pat))
                  w == MaxOf(SpaceChoices(s, p + a + d + b, pat))
                  q == p + a + d + b + w
              IN  q + MarkLen(s, q, pat)

\* re.search(pattern, text, re.IGNORECASE): the leftmost match, or NoData
Search(s, pat) ==
    LET starts == {p \in 1..Len(s) : MatchEnd(s, p, pat) # 0}
    IN  IF starts = {} THEN NoData
        ELSE LET p == MinOf(starts) IN SubSeq(s, p, MatchEnd(s, p, pat) - 1)

\* mutant: the patterns tried from the last to the first
RECURSIVE FirstPatternMatchReversed(_, _)
FirstPatternMatchReversed(text, j) ==
    IF j > Len(PricePatterns) THEN NoData
    ELSE LET m == Search(text, PricePatterns[Len(PricePatterns) + 1 - j])
         IN  IF m # NoData THEN Strip(m) ELSE FirstPatternMatchReversed(text, j + 1)

\* lines 268-271: the first pattern, from pattern j on, that matches the text
RECURSIVE FirstPatternMatch(_, _)
FirstPatternMatch(text, j) ==
    IF j > Len(PricePatterns) THEN NoData
    ELSE LET m == Search(text, PricePatterns[j])
         IN  IF m # NoData THEN Strip(m) ELSE FirstPatternMatch(text, j + 1)

\* lines 254-273: the first element, from candidate k on, with a match
RECURSIVE FirstPrice(_, _)
FirstPrice(texts, k) ==
    IF k > Len(texts) THEN ""
    ELSE LET m == FirstPatternMatch(texts[k], 1)
         IN  IF m # NoData THEN m ELSE FirstPrice(texts, k + 1)

ExtractPrice(doc) == FirstPrice(CandidateTexts(doc, PriceSelectors), 1)

(***************************************************************************)
(* _extract_description                                                    *)
(***************************************************************************)
DescriptionSelectors ==
    << Simple(Sel("", "class", "*=", "description")),
       Simple(Sel("", "class", "*=", "product-description")),
       Simple(Sel("", "class", "*=", "summary")),
       Simple(Sel("", "class", "*=", "overview")),
       Simple(Sel("", "class", "*=", "details")),
       Simple(Sel("", "data-testid", "*=", "description")),
       Simple(Sel("meta", "name", "=", "description")),
       Simple(Sel("", "class", "*=", "content")) >>

\* line 145: if 'meta' in selector
IsMetaSelector(sel) == sel.self.tag = "meta"

\* line 149: if desc and len(desc) > 20
MetaQualifies(desc) == desc # "" /\ Len(desc) > 20

\* mutant: blocks of up to 2999 characters
BlockQualifiesUpTo2999(text) == text # "" /\ Len(text) > 20 /\ Len(text) < 3000

\* mutant: a block of 2000 characters qualifies
BlockQualifiesUpTo2000(text) == text # "" /\ Len(text) > 20 /\ Len(text) < 2001

\* line 155: if text and len(text) > 20 and len(text) < 2000
BlockQualifies(text) == text # "" /\ Len(text) > 20 /\ Len(text) < 2000

\* lines 146-150: select_one, the content attribute as it is written
MetaBlocks(doc, sel) ==
    LET found == Select(doc, sel)
    IN  IF found # <<>> /\ MetaQualifies(doc[found[1]].content)
        THEN <<doc[found[1]].content>> ELSE <<>>

\* the exclusion vocabulary of the description rule
ExclusionVocabulary == {"nav", "cart", "checkout", "shipping", "price", "review", "breadcrumb"}

\* the class or the id of the element holds a word of the vocabulary
Excluded(node) == \E w \in ExclusionVocabulary : Contains(node.class, w) \/ Contains(node.id, w)

\* mutant: the elements of an excluded class or id are skipped
SelectorBlocksSkippingExcluded(doc, sel) ==
    IF IsMetaSelector(sel) THEN MetaBlocks(doc, sel)
    ELSE LET kept(i) == ~Excluded(doc[i])
         IN  SelectSeq(TextsOf(doc, SelectSeq(Select(doc, sel), kept), 1), BlockQualifies)

\* the blocks one selector adds, in order
SelectorBlocks(doc, sel) ==
    IF IsMetaSelector(sel) THEN MetaBlocks(doc, sel)
    ELSE SelectSeq(TextsOf(doc, Select(doc, sel), 1), BlockQualifies)

RECURSIVE DescriptionBlocksFrom(_, _)
DescriptionBlocksFrom(doc, s) ==
    IF s > Len(DescriptionSelectors) THEN <<>>
    ELSE SelectorBlocks(doc, DescriptionSelectors[s]) \o DescriptionBlocksFrom(doc, s + 1)

\* description += block + " ", for every block
RECURSIVE Accumulate(_, _)
Accumulate(blocks, k) ==
    IF k > Len(blocks) THEN "" ELSE blocks[k] \o " " \o Accumulate(blocks, k + 1)

\* line 158: return description.strip()
ExtractDescription(doc) == Strip(Accumulate(DescriptionBlocksFrom(doc, 1), 1))

(***************************************************************************)
(* Tokenization: re.findall(r'\b[a-záéíóúñüA-ZÁÉÍÓÚÑÜ]{3,}\b', text.lower()) *)
(* and the stopword filter (lines 345-346 and 369-370).                    *)
(***************************************************************************)
\* __init__, lines 65-68: the stopwords the class falls back to
StopWords ==
    {"el", "la", "de", "que", "y", "a", "en", "un", "es", "se", "no", "te", "lo", "le",
     "da", "su", "por", "son", "con", "para", "al", "the", "and", "or", "but", "in",
     "on", "at", "to", "for", "of", "with", "by"}

CharsOf(s) == {Char(s, i) : i \in 1..Len(s)}

\* the character class of the pattern
TokenChars == CharsOf("abcdefghijklmnopqrstuvwxyzáéíóúñüABCDEFGHIJKLMNOPQRSTUVWXYZÁÉÍÓÚÑÜ")
\* \w: letters, digits and the underscore
WordChars == CharsOf(LowerChars) \cup CharsOf(UpperChars) \cup Digits \cup {"_"}

MinTokenLen == 3

IsWordAt(s, p) == p >= 1 /\ p <= Len(s) /\ Char(s, p) \in WordChars

\* mutant: the pattern without its \b anchors
NoBoundary(s, p) == TRUE

\* \b at position p: exactly one of the characters before and at p is a word character
WordBoundary(s, p) == IsWordAt(s, p - 1) # IsWordAt(s, p)

\* the position just after the match that starts at p (0: no match at p): the
\* longest run of at least 3 class characters that ends at a \b
TokenEnd(s, p) ==
    LET ends == {n \in MinTokenLen..RunLen(s, p, TokenChars) : WordBoundary(s, p + n)}
    IN  IF WordBoundary(s, p) /\ ends # {} THEN p + MaxOf(ends) ELSE 0

\* re.findall: the matches from left to right, the scan going on after each match
RECURSIVE ReFindAllFrom(_, _)
ReFindAllFrom(s, p) ==
    IF p > Len(s) THEN <<>>
    ELSE IF TokenEnd(s, p) # 0
         THEN <<SubSeq(s, p, TokenEnd(s, p) - 1)>> \o ReFindAllFrom(s, TokenEnd(s, p))
         ELSE ReFindAllFrom(s, p + 1)

NotStopWord(word) == word \notin stop_words

\* lines 345-346 (and 369-370)
Tokenize(text) == SelectSeq(ReFindAllFrom(Lower(text), 1), NotStopWord)

(***************************************************************************)
(* collections.Counter: <<key, count>> pairs in the order of first insertion *)
(***************************************************************************)
CounterKeys(c) == {c[i][1] : i \in DOMAIN c}
CounterGet(c, key) ==
    IF key \in CounterKeys(c) THEN c[CHOOSE i \in DOMAIN c : c[i][1] = key][2] ELSE 0

RECURSIVE CounterFrom(_, _, _)
CounterFrom(c, items, k) ==
    IF k > Len(items) THEN c
    ELSE CounterFrom(IF items[k] \in CounterKeys(c)
                     THEN [i \in DOMAIN c |->
                             IF c[i][1] = items[k] THEN <<c[i][1], c[i][2] + 1>> ELSE c[i]]
                     ELSE Append(c, <<items[k], 1>>),
                     items, k + 1)

\* Counter(items), as a sequence
Counter(items) == CounterFrom(<<>>, items, 1) \o <<>>

\* " ".join(items)
RECURSIVE JoinFrom(_, _)
JoinFrom(items, k) ==
    IF k > Len(items) THEN ""
    ELSE IF k = Len(items) THEN items[k]
    ELSE items[k] \o " " \o JoinFrom(items, k + 1)

Join(items) == JoinFrom(items, 1)

\* list(d.keys()), list(d.values())
KeysOf(d) == [i \in DOMAIN d |-> d[i][1]]
ValuesOf(d) == [i \in DOMAIN d |-> d[i][2]]

(***************************************************************************)
(* analyze_terms, analyze_filters, analyze_features                        *)
(***************************************************************************)
\* data.get(field, default)
Get(data, field, default) == IF field \in DOMAIN data THEN data[field] ELSE default

\* mutant: the features are put into the pool twice
RECURSIVE AllTextFeaturesTwiceFrom(_, _)
AllTextFeaturesTwiceFrom(data, k) ==
    IF k > Len(data) THEN ""
    ELSE " " \o Get(data[k], "title", "") \o " " \o Get(data[k], "description", "") \o " "
           \o Join(Get(data[k], "features", <<>>)) \o " " \o Join(Get(data[k], "features", <<>>))
           \o Join(KeysOf(Get(data[k], "specifications", <<>>)))
           \o Join(ValuesOf(Get(data[k], "specifications", <<>>)))
           \o AllTextFeaturesTwiceFrom(data, k + 1)

\* mutant: a record's part of the pool does not begin with a space
RECURSIVE AllTextNoGapFrom(_, _)
AllTextNoGapFrom(data, k) ==
    IF k > Len(data) THEN ""
    ELSE Get(data[k], "title", "") \o " " \o Get(data[k], "description", "") \o " "
           \o Join(Get(data[k], "features", <<>>))
           \o Join(KeysOf(Get(data[k], "specifications", <<>>)))
           \o Join(ValuesOf(Get(data[k], "specifications", <<>>)))
           \o AllTextNoGapFrom(data, k + 1)

\* mutant: a missing title or description is formatted as None
RECURSIVE AllTextMissingAsNoneFrom(_, _)
AllTextMissingAsNoneFrom(data, k) ==
    IF k > Len(data) THEN ""
    ELSE " " \o Get(data[k], "title", "None") \o " " \o Get(data[k], "description", "None") \o " "
           \o Join(Get(data[k], "features", <<>>))
           \o Join(KeysOf(Get(data[k], "specifications", <<>>)))
           \o Join(ValuesOf(Get(data[k], "specifications", <<>>)))
           \o AllTextMissingAsNoneFrom(data, k + 1)

\* mutant: the description is left out of the pool
RECURSIVE AllTextNoDescriptionFrom(_, _)
AllTextNoDescriptionFrom(data, k) ==
    IF k > Len(data) THEN ""
    ELSE " " \o Get(data[k], "title", "") \o "  "
           \o Join(Get(data[k], "features", <<>>))
           \o Join(KeysOf(Get(data[k], "specifications", <<>>)))
           \o Join(ValuesOf(Get(data[k], "specifications", <<>>)))
           \o AllTextNoDescriptionFrom(data, k + 1)

\* lines 337-341: the text pool
RECURSIVE AllTextFrom(_, _)
AllTextFrom(data, k) ==
    IF k > Len(data) THEN ""
    ELSE " " \o Get(data[k], "title", "") \o " " \o Get(data[k], "description", "") \o " "
           \o Join(Get(data[k], "features", <<>>))
           \o Join(KeysOf(Get(data[k], "specifications", <<>>)))
           \o Join(ValuesOf(Get(data[k], "specifications", <<>>)))
           \o AllTextFrom(data, k + 1)

AllText(data) == AllTextFrom(data, 1)

AnalyzeTermsOf(data) == Counter(Tokenize(AllText(data)))

\* mutant: the filters are case-folded before they are counted
RECURSIVE AllFiltersFoldedFrom(_, _)
AllFiltersFoldedFrom(data, k) ==
    IF k > Len(data) THEN <<>>
    ELSE LET f == Get(data[k], "filters", <<>>)
         IN  [i \in DOMAIN f |-> Lower(f[i])] \o AllFiltersFoldedFrom(data, k + 1)

\* lines 354-355
RECURSIVE AllFiltersFrom(_, _)
AllFiltersFrom(data, k) ==
    IF k > Len(data) THEN <<>>
    ELSE Get(data[k], "filters", <<>>) \o AllFiltersFrom(data, k + 1)

AnalyzeFiltersOf(data) == Counter(AllFiltersFrom(data, 1))

\* mutant: the title is counted with the features
RECURSIVE AllFeaturesAndTitleFrom(_, _)
AllFeaturesAndTitleFrom(data, k) ==
    IF k > Len(data) THEN <<>>
    ELSE <<Get(data[k], "title", "")>> \o Get(data[k], "features", <<>>)
           \o AllFeaturesAndTitleFrom(data, k + 1)

\* lines 363-364
RECURSIVE AllFeaturesFrom(_, _)
AllFeaturesFrom(data, k) ==
    IF k > Len(data) THEN <<>>
    ELSE Get(data[k], "features", <<>>) \o AllFeaturesFrom(data, k + 1)

\* lines 368-371
RECURSIVE FeatureWordsFrom(_, _)
FeatureWordsFrom(features, k) ==
    IF k > Len(features) THEN <<>>
    ELSE Tokenize(features[k]) \o FeatureWordsFrom(features, k + 1)

AnalyzeFeaturesOf(data) == Counter(FeatureWordsFrom(AllFeaturesFrom(data, 1), 1))

(***************************************************************************)
(* list(set(filters)): the order in which a set of strings is iterated is  *)
(* not fixed by the program (it follows the strings' hashes).  Small sets  *)
(* are taken in every order; larger ones in every rotation of the order of *)
(* first insertion and of its reverse, so that any one element can be the  *)
(* one cut off by the cap.                                                 *)
(***************************************************************************)
Reverse(seq) == [i \in DOMAIN seq |-> seq[Len(seq) + 1 - i]]
Rotate(seq, r) == [i \in DOMAIN seq |-> seq[((i - 1 + r) % Len(seq)) + 1]]

SetOrders(items) ==
    LET u == UniqueExact(items, 1, {})
    IN  IF Len(u) <= MaxPermLen
        THEN {[i \in DOMAIN u |-> u[f[i]]] : f \in Permutations(DOMAIN u)}
        ELSE {Rotate(u, r) : r \in 0..(Len(u) - 1)}
               \cup {Rotate(Reverse(u), r) : r \in 0..(Len(u) - 1)}

\* mutant: the cap applied one entry late
CapFiltersLate(order) == Take(order, MaxFilters + 1)

\* line 305: [:100]
CapFilters(order) == Take(order, MaxFilters)

(***************************************************************************)
(* extract_content_from_url                                                *)
(***************************************************************************)
Url == "https://shop.example/p"

\* lines 83-100: the page was fetched and parsed; every field is extracted
ExtractOk ==
    /\ pc = "start"
    /\ \E order \in SetOrders(FilterCandidates(soup)) :
         product_data' = [url |-> Url,
                          title |-> ExtractTitle(soup),
                          description |-> ExtractDescription(soup),
                          features |-> ExtractFeatures(soup),
                          specifications |-> ExtractSpecifications(soup),
                          price |-> ExtractPrice(soup),
                          filters |-> CapFilters(order),
                          categories |-> ExtractCategories(soup)]
    /\ pc' = "extracted"
    /\ UNCHANGED <<soup, all_data, counters, out, stop_words,
                 urls_input, urls, url_index, failed_count>>

\* lines 102-107: the request or the parsing raised; the method returns None
ExtractFail ==
    /\ pc = "start"
    /\ product_data' = None
    /\ pc' = "failed"
    /\ UNCHANGED <<soup, all_data, counters, out, stop_words,
                 urls_input, urls, url_index, failed_count>>

(***************************************************************************)
(* The calls of analyze_terms, analyze_filters and analyze_features on a   *)
(* collection of records.                                                  *)
(***************************************************************************)
NoCounters == [terms |-> NoData, filters |-> NoData, features |-> NoData]

AnalyzeTerms ==
    /\ pc = "analyze"
    /\ counters.terms = NoData
    /\ counters' = [counters EXCEPT !.terms = AnalyzeTermsOf(all_data)]
    /\ UNCHANGED <<soup, product_data, all_data, pc, out, stop_words,
                 urls_input, urls, url_index, failed_count>>

AnalyzeFilters ==
    /\ pc = "analyze"
    /\ counters.filters = NoData
    /\ counters' = [counters EXCEPT !.filters = AnalyzeFiltersOf(all_data)]
    /\ UNCHANGED <<soup, product_data, all_data, pc, out, stop_words,
                 urls_input, urls, url_index, failed_count>>

AnalyzeFeatures ==
    /\ pc = "analyze"
    /\ counters.features = NoData
    /\ counters' = [counters EXCEPT !.features = AnalyzeFeaturesOf(all_data)]
    /\ UNCHANGED <<soup, product_data, all_data, pc, out, stop_words,
                 urls_input, urls, url_index, failed_count>>

NextExtract == ExtractOk \/ ExtractFail
NextAnalyze == AnalyzeTerms \/ AnalyzeFilters \/ AnalyzeFeatures

\* a run of extract_content_from_url on one of the documents of docs
InitExtract(docs) ==
    /\ soup \in docs
    /\ product_data = NoData
    /\ all_data = <<>>
    /\ counters = NoCounters
    /\ pc = "start"
    /\ out = NoData
    /\ stop_words = StopWords
    /\ NoUrls

Extracted == pc = "extracted"

(***************************************************************************)
(* Title: the documents checked.                                           *)
(***************************************************************************)
WithId(el, id) == [el EXCEPT !.id = id]
WithTestId(el, t) == [el EXCEPT !.testid = t]

TitlePool ==
    { <<El("title", "", "Shop | " \o Rep("x", 292), 0)>>,          \* 299 characters
      <<El("h1", "", "  Camera\n", 0)>>,                           \* 6 after strip()
      <<El("h1", "product-title main", "Short", 0)>>,              \* 5: too short
      <<WithId(El("div", "", Rep("y", 300), 0), "title-box")>>,    \* 300: too long
      <<WithTestId(El("span", "", " Laptop Pro 15 ", 0), "pdp-title")>>,
      <<El("h1", "product", "Phone", 0)>> }

TitleDocs == Docs(TitlePool, MaxNodes)

InitTitle == InitExtract(TitleDocs)
SpecTitle == InitTitle /\ [][NextExtract]_vars

\* the candidates in the order the method reads them: selector by selector, each
\* selector's elements in document order
TitleCandidates(doc) == CandidateTexts(doc, TitleSelectors)
InTitleRange(text) == Len(text) >= 6 /\ Len(text) <= 299

\* C1: the title is the stripped text of the first candidate, in selector priority
\* order and then document order, whose length is in [6, 299]; it is "" when no
\* candidate has such a length.
C1_TitleFirstMatch ==
    Extracted =>
        LET cands == TitleCandidates(soup)
            ok == {k \in DOMAIN cands : InTitleRange(cands[k])}
        IN  IF ok = {} THEN product_data.title = ""
            ELSE product_data.title = cands[MinOf(ok)]

\* a lower-priority selector has an earlier qualifying element in the document,
\* and the higher-priority selector's later element is the one returned
C1_Witness ==
    /\ Extracted
    /\ \E i, j \in DOMAIN soup :
         /\ i < j
         /\ InTitleRange(StrippedText(soup, i))
         /\ InTitleRange(StrippedText(soup, j))
         /\ StrippedText(soup, i) # StrippedText(soup, j)
         /\ product_data.title = StrippedText(soup, j)
    /\ \E k \in DOMAIN soup : Len(StrippedText(soup, k)) >= 300

(***************************************************************************)
(* Features: the documents checked.                                        *)
(***************************************************************************)
FeaturePool ==
    { <<El("ul", "feature-list", "", 0), El("li", "", "Wifi 5G dual band", 1)>>,
      <<El("li", "", "  wifi 5g DUAL band\n", 0)>>,
      <<El("li", "", "HTTP://cdn.example/a", 0)>>,
      <<El("span", "key-feature", Rep("w", 499), 0)>> }

\* a list of n items under one container; item d (if any) repeats item 1 in capitals
FeatureItem(i) == "Feature no " \o Rep("i", i)
LongFeatureDoc(n, d) ==
    <<El("ul", "benefit-box", "", 0)>>
      \o [i \in 1..n |-> El("li", "", IF i = d THEN "FEATURE NO I" ELSE FeatureItem(i), 1)]

LongFeatureDocs ==
    {LongFeatureDoc(n, d) : n \in (MaxFeatures - 2)..(MaxFeatures + Surplus),
                            d \in {0, 2, MaxFeatures, MaxFeatures + 1}}

\* one list with a candidate of every kind the method rejects
MixedFeatureDoc ==
    << El("ul", "product-features", "", 0),
       El("li", "", "Wifi 5G dual band", 1),
       El("li", "", "12345678901", 1),
       El("li", "", "HTTP://cdn.example/a", 1),
       El("li", "", Rep("z", 500), 1),
       El("li", "", "USB-C port", 1),                       \* 10 characters
       El("li", "", "Bluetooth 5", 1),                      \* 11 characters
       El("li", "", "WIFI 5G DUAL BAND", 1) >>

FeatureDocs == Docs(FeaturePool, MaxNodes) \cup LongFeatureDocs \cup {MixedFeatureDoc}

InitFeatures == InitExtract(FeatureDocs)
SpecFeatures == InitFeatures /\ [][NextExtract]_vars

AllDigits(text) == Len(text) > 0 /\ \A i \in 1..Len(text) : Char(text, i) \in Digits
UrlLike(text, schemes) == \E p \in schemes : StartsWith(Lower(text), p)

\* what the claims call a qualifying feature candidate
IsFeature(text) ==
    /\ Len(text) >= 11
    /\ Len(text) <= 499
    /\ ~AllDigits(text)
    /\ ~UrlLike(text, {"http", "www", "mailto"})

\* the qualifying candidates of the document, in discovery order
FeatureDiscovery(doc) ==
    LET cands == CandidateTexts(doc, FeatureSelectors)
        ok == {k \in DOMAIN cands : IsFeature(cands[k])}
    IN  [i \in 1..Cardinality(ok) |->
           cands[CHOOSE k \in ok : Cardinality({j \in ok : j <= k}) = i]]

\* the texts of a sequence, each lower-cased
RECURSIVE LowerAllFrom(_, _)
LowerAllFrom(seq, k) ==
    IF k > Len(seq) THEN <<>> ELSE <<Lower(seq[k])>> \o LowerAllFrom(seq, k + 1)

LowerAll(seq) == LowerAllFrom(seq, 1)

\* the positions of found that hold the first occurrence of a text, case ignored
FirstOccurrences(found) ==
    LET low == LowerAll(found)
    IN  {k \in DOMAIN found : \A j \in 1..(k - 1) : low[j] # low[k]}

\* C2: no two features are equal after lower-casing; each feature is written as
\* the first candidate with that lower-cased text is; the features are in the
\* order of discovery.
C2_FeatureDedupFirstOccurrence ==
    Extracted =>
        LET found == FeatureDiscovery(soup)
            lowFound == LowerAll(found)
            f == product_data.features
            lowF == LowerAll(f)
            \* where feature i was first discovered (0: nowhere)
            At(i) == IF \E k \in DOMAIN found : lowFound[k] = lowF[i]
                     THEN MinOf({k \in DOMAIN found : lowFound[k] = lowF[i]})
                     ELSE 0
        IN  /\ \A i, j \in DOMAIN f : i # j => lowF[i] # lowF[j]
            /\ \A i \in DOMAIN f : At(i) # 0 /\ f[i] = found[At(i)]
            /\ \A i \in DOMAIN f : i > 1 => At(i - 1) < At(i)

\* a text was discovered twice in different casing; the first writing is kept
C2_Witness ==
    /\ Extracted
    /\ LET found == FeatureDiscovery(soup)
       IN  \E i, j \in DOMAIN found :
             /\ i < j
             /\ found[i] # found[j]
             /\ Lower(found[i]) = Lower(found[j])
             /\ found[i] \in Range(product_data.features)
             /\ found[j] \notin Range(product_data.features)
    /\ Len(product_data.features) >= 2

\* C3: at most 50 features; they are the first 50 distinct candidates (all of
\* them when there are fewer), in discovery order.
C3_FeatureCap ==
    Extracted =>
        LET found == FeatureDiscovery(soup)
            firsts == FirstOccurrences(found)
            f == product_data.features
        IN  /\ Len(f) <= 50
            /\ Len(f) = (IF Cardinality(firsts) < 50 THEN Cardinality(firsts) ELSE 50)
            /\ \A i \in DOMAIN f :
                 f[i] = found[CHOOSE k \in firsts : Cardinality({j \in firsts : j <= k}) = i]

\* more than 50 distinct candidates were discovered and 50 are kept
C3_Witness ==
    /\ Extracted
    /\ Cardinality(FirstOccurrences(FeatureDiscovery(soup))) > 50
    /\ Len(product_data.features) = 50

\* C4: every feature has a (stripped) length in [11, 499], is not made of digits
\* only, does not start with http, www or mailto in any casing, and is the whole
\* stripped text of an element, never a cut one.
C4_FeaturesQualify ==
    Extracted =>
        \A i \in DOMAIN product_data.features :
            LET e == product_data.features[i]
            IN  /\ Len(Strip(e)) >= 11 /\ Len(Strip(e)) <= 499
                /\ ~AllDigits(e)
                /\ ~UrlLike(e, {"http", "www", "mailto"})
                /\ \E n \in DOMAIN soup : StrippedText(soup, n) = e

\* an over-long, a numeric and an upper-case URL candidate were all discarded
C4_Witness ==
    /\ Extracted
    /\ LET cands == Range(CandidateTexts(soup, FeatureSelectors))
       IN  /\ \E c \in cands : Len(c) >= 500
           /\ \E c \in cands : AllDigits(c) /\ Len(c) >= 11
           /\ \E c \in cands : StartsWith(c, "HTTP")
    /\ product_data.features = <<"Wifi 5G dual band", "Bluetooth 5">>

(***************************************************************************)
(* Filters: the documents checked.                                         *)
(***************************************************************************)
WithType(el, t) == [el EXCEPT !.type = t]

FilterPool ==
    { <<El("nav", "", "", 0), El("a", "", " Laptops ", 1)>>,
      <<El("span", "tag", "Laptops", 0)>>,
      <<El("span", "badge", "WWW.shop.example", 0)>>,
      <<WithType(El("input", "", "", 0), "checkbox"), El("label", "", "Red", 0)>>,
      <<El("span", "tag", "2024", 0)>> }

\* a navigation bar of n links with distinct texts of 3 to 79 characters
FilterItem(i) == (IF i % 2 = 1 THEN "a" ELSE "b") \o Rep("x", 2 + (i \div 2))
LongFilterDoc(n) ==
    <<El("nav", "", "", 0)>> \o [i \in 1..n |-> El("a", "", FilterItem(i), 1)]

\* one document with a candidate of every kind the method rejects
MixedFilterDoc ==
    << El("div", "filter-box", "", 0),
       El("a", "", "4K", 1),                                 \* 2 characters
       El("a", "", "OLED", 1),
       El("a", "", Rep("q", 80), 1),
       El("a", "", Rep("r", 79), 1),
       El("a", "", "123", 1),
       El("a", "", "https://shop.example", 1),
       El("a", "", "OLED", 1),
       El("span", "tag", "oled", 0) >>

FilterDocs ==
    Docs(FilterPool, MaxNodes)
      \cup {LongFilterDoc(n) : n \in (MaxFilters - 1)..(MaxFilters + Surplus)}
      \cup {MixedFilterDoc}

InitFilters == InitExtract(FilterDocs)
SpecFilters == InitFilters /\ [][NextExtract]_vars

\* C5: the filters hold no string twice, are at most 100, and each has a
\* (stripped) length in [3, 79], is not made of digits only and does not start
\* with http or www in any casing.
C5_FiltersQualify ==
    Extracted =>
        LET f == product_data.filters
        IN  /\ \A i, j \in DOMAIN f : i # j => f[i] # f[j]
            /\ Len(f) <= 100
            /\ \A i \in DOMAIN f :
                 /\ Len(Strip(f[i])) >= 3 /\ Len(Strip(f[i])) <= 79
                 /\ ~AllDigits(f[i])
                 /\ ~UrlLike(f[i], {"http", "www"})

\* repeated, short, long, numeric and URL candidates beside the kept ones
C5_Witness ==
    /\ Extracted
    /\ LET cands == CandidateTexts(soup, FilterSelectors)
       IN  /\ \E i, j \in DOMAIN cands : i # j /\ cands[i] = cands[j] /\ cands[i] = "OLED"
           /\ \E c \in Range(cands) : Len(c) = 2
           /\ \E c \in Range(cands) : Len(c) = 80
           /\ \E c \in Range(cands) : AllDigits(c)
           /\ \E c \in Range(cands) : StartsWith(c, "https")
           /\ Range(product_data.filters) = {"OLED", "oled", Rep("r", 79)}

\* the cap is what cuts the list: 101 or more distinct candidates, 100 kept
C5_CapReached ==
    /\ Extracted
    /\ Cardinality(Range(CandidateTexts(soup, FilterSelectors))) > 100
    /\ Len(product_data.filters) = 100

(***************************************************************************)
(* Specifications: the documents checked.                                  *)
(***************************************************************************)
SpecPool ==
    { <<El("table", "", "", 0), El("tr", "", "", 1), El("td", "", "Color", 2), El("td", "", "Red", 2)>>,
      <<El("tr", "", "", 0), El("th", "", " Color ", 1), El("td", "", " Blue\n", 1)>>,
      <<El("dt", "", "Color", 0), El("dd", "", "Green", 0)>>,
      <<El("div", "product-spec", "Color: Black: matte", 0)>> }

\* one table with a value of 200 characters, a key of 100, a row of one cell, a
\* row of three, and a table nested in a cell between two rows with its key
MixedSpecDoc ==
    << El("table", "", "", 0),
       El("tr", "", "", 1), El("td", "", "Size", 2), El("td", "", Rep("v", 200), 2),
       El("tr", "", "", 1), El("td", "", Rep("k", 100), 5), El("td", "", "x", 5),
       El("tr", "", "", 1), El("td", "", "Weight", 8),
       El("tr", "", "", 1), El("td", "", "Depth", 10), El("td", "", "10 cm", 10),
                            El("td", "", "ignored", 10),
       El("tr", "", "", 1), El("td", "", "Note", 14), El("td", "", "", 14),
       El("table", "", "", 16),
       El("tr", "", "", 17), El("td", "", "Depth", 18), El("td", "", "12 cm", 18),
       El("tr", "", "", 1), El("td", "", "Depth", 21), El("td", "", "14 cm", 21) >>

SpecDocs == Docs(SpecPool, MaxNodes) \cup {MixedSpecDoc}

InitSpecs == InitExtract(SpecDocs)
SpecSpecs == InitSpecs /\ [][NextExtract]_vars

\* the rows that lie in a table, each once, in document order
TableRows(doc) ==
    LET rows == FindAll(doc, 0, {"tr"})
    IN  SelectSeq(rows, LAMBDA r : \E a \in Range(Ancestors(doc, r)) : doc[a].tag = "table")

\* a pair is stored only if it passes these tests
IsSpecPair(pair) ==
    /\ Len(pair[1]) >= 1 /\ Len(pair[1]) <= 99
    /\ Len(pair[2]) >= 1 /\ Len(pair[2]) <= 199

\* the value of the last pair of pairs with this key
LastValue(pairs, key) ==
    pairs[MaxOf({k \in DOMAIN pairs : pairs[k][1] = key})][2]

\* C6 as stated: the scan is over the table rows in document order (first cell the
\* key, second cell the value, rows of at least 2 cells), and the value stored
\* for a key is that of the last qualifying row with that key.
C6_LastTableRowWins ==
    Extracted =>
        LET pairs == SelectSeq(RowPairs(soup, TableRows(soup), 1), IsSpecPair)
        IN  \A k \in DOMAIN pairs :
              /\ pairs[k][1] \in DictKeys(product_data.specifications)
              /\ DictGet(product_data.specifications, pairs[k][1]) = LastValue(pairs, pairs[k][1])

\* C6 (amended): the pairs are read in this order: the rows below each table
\* (tables in document order, a nested table's rows again with the nested
\* table), then every dt with its next dd sibling, then the text "key: value"
\* of every div or span whose class contains spec, attribute or property.  A
\* pair is stored only with a non-empty key shorter than 100 and a non-empty
\* value shorter than 200; the value stored for a key is that of the last such
\* pair in this order; keys are unique.
C6_LastWriteWins ==
    Extracted =>
        LET pairs == SelectSeq(SpecPairs(soup), IsSpecPair)
            specs == product_data.specifications
        IN  /\ DictKeys(specs) = {pairs[k][1] : k \in DOMAIN pairs}
            /\ \A key \in DictKeys(specs) : DictGet(specs, key) = LastValue(pairs, key)
            /\ \A i, j \in DOMAIN specs : i # j => specs[i][1] # specs[j][1]
            /\ \A i \in DOMAIN specs : IsSpecPair(specs[i])

\* a key is written by a table row, later by a dt/dd pair and last by a div; the
\* last value is the one stored
C6_Witness ==
    /\ Extracted
    /\ LET pairs == SpecPairs(soup)
       IN  \E i, j, k \in DOMAIN pairs :
             /\ i < j /\ j < k
             /\ pairs[i] = <<"Color", "Red">>
             /\ pairs[j] = <<"Color", "Green">>
             /\ pairs[k] = <<"Color", "Black: matte">>
    /\ product_data.specifications = << <<"Color", "Black: matte">> >>

\* the nested table's row is read again after the outer table's last row
C6_NestedTableReached ==
    /\ Extracted
    /\ soup = MixedSpecDoc
    /\ product_data.specifications =
         << <<"Depth", "12 cm">>, <<"Note", "Depth12 cm">> >>

(***************************************************************************)
(* Price: the documents checked.                                           *)
(***************************************************************************)
PricePool ==
    { <<El("span", "price-note", "Free shipping", 0)>>,
      <<El("span", "old-price", "10 EUR = $1,299.99", 0)>>,
      <<WithId(El("div", "", " 49,90 € ", 0), "price-box")>>,
      <<El("b", "amount", "12..5 usd", 0)>> }

PriceDocs == Docs(PricePool, MaxNodes)

InitPrice == InitExtract(PriceDocs)
SpecPrice == InitPrice /\ [][NextExtract]_vars

\* the patterns that match somewhere in the text
MatchingPatterns(text) == {j \in DOMAIN PricePatterns : Search(text, PricePatterns[j]) # NoData}

\* C7: the price is the match found in the first candidate element, in selector
\* order and then document order, that any pattern matches, and in it the match
\* of the first pattern of the list that matches; it is "" when no pattern
\* matches any element.
C7_PriceFirstSuccess ==
    Extracted =>
        LET texts == CandidateTexts(soup, PriceSelectors)
            hits == {k \in DOMAIN texts : MatchingPatterns(texts[k]) # {}}
        IN  IF hits = {} THEN product_data.price = ""
            ELSE LET text == texts[MinOf(hits)]
                     pattern == PricePatterns[MinOf(MatchingPatterns(text))]
                 IN  product_data.price = Strip(Search(text, pattern))

\* the first element with a price holds matches of two patterns, the later
\* pattern's match coming first in the text, and a later element holds another
\* price; the first pattern's match in the first element is returned
C7_Witness ==
    /\ Extracted
    /\ LET texts == CandidateTexts(soup, PriceSelectors)
       IN  \E i, j \in DOMAIN texts :
             /\ i < j
             /\ \A k \in 1..(i - 1) : MatchingPatterns(texts[k]) = {}
             /\ \E k \in 1..(i - 1) : texts[k] = "Free shipping"
             /\ texts[i] = "10 EUR = $1,299.99"
             /\ MatchingPatterns(texts[i]) = {1, 3}
             /\ texts[j] = "49,90 €"
    /\ product_data.price = "$1,299.99"

\* the backtracking of the amount: "12..5 usd" gives "5 usd"
C7_BacktrackReached ==
    /\ Extracted
    /\ product_data.price = "5 usd"

(***************************************************************************)
(* Categories: the documents checked.                                      *)
(***************************************************************************)
CategoryPool ==
    { <<El("ol", "breadcrumb", "", 0), El("a", "", " Inicio ", 1)>>,
      <<El("div", "category-nav", "", 0), El("a", "", "Laptops", 1),
        El("a", "", "TV", 1)>>,                                    \* 2 characters
      <<El("a", "", Rep("d", 49), 0), El("a", "", Rep("c", 50), 0)>> }

CategoryDocs == Docs(CategoryPool, MaxNodes)

InitCategories == InitExtract(CategoryDocs)
SpecCategories == InitCategories /\ [][NextExtract]_vars

IsCategory(text) ==
    /\ Len(Strip(text)) >= 3
    /\ Len(Strip(text)) <= 49
    /\ \A g \in GenericLabels : Lower(text) # g

\* C8: every category has a (stripped) length in [3, 49] and is none of home,
\* inicio, tienda, shop, store in any casing; the categories are the candidates
\* with these properties in discovery order (selector by selector, each
\* selector's links in document order).
C8_CategoriesQualify ==
    Extracted =>
        LET cands == CandidateTexts(soup, CategorySelectors)
            ok == {k \in DOMAIN cands : IsCategory(cands[k])}
            c == product_data.categories
        IN  /\ \A i \in DOMAIN c : IsCategory(c[i])
            /\ Len(c) = Cardinality(ok)
            /\ \A i \in DOMAIN c :
                 c[i] = cands[CHOOSE k \in ok : Cardinality({j \in ok : j <= k}) = i]

\* a capitalised generic label, a short and a long link were dropped; a link found by several selectors is
\* listed once for each, and a link found by an earlier selector comes first
\* though it is later in the document
C8_Witness ==
    /\ Extracted
    /\ LET cands == Range(CandidateTexts(soup, CategorySelectors))
       IN  /\ "Inicio" \in cands
           /\ "TV" \in cands
           /\ \E t \in cands : Len(t) = 50
    /\ \E i, j \in DOMAIN soup :
         /\ i < j
         /\ StrippedText(soup, i) = "Laptops"
         /\ Len(StrippedText(soup, j)) = 49
         /\ product_data.categories =
              <<Rep("d", 49), "Laptops", "Laptops", Rep("d", 49), Rep("d", 49)>>

(***************************************************************************)
(* Description: the documents checked and the claim.                       *)
(***************************************************************************)
WithMeta(el, name, content) == [el EXCEPT !.name = name, !.content = content]

DescriptionPool ==
    { <<El("div", "product-description", Rep("a", 21), 0),         \* 21, two selectors
        El("div", "summary", " " \o Rep("b", 20) \o "\n", 0)>>,    \* 20 after strip()
      <<El("div", "details content", Rep("c", 1999), 0),           \* 1999, two selectors
        El("p", "overview", Rep("e", 2000), 0)>>,                  \* 2000: too long
      <<WithMeta(El("meta", "", "", 0), "description",
                 " " \o Rep("m", 19) \o " ")>>,                    \* 21 as written
      <<WithMeta(El("meta", "", "", 0), "description", Rep("n", 3000))>> }

DescriptionDocs == Docs(DescriptionPool, MaxNodes)

InitDescription == InitExtract(DescriptionDocs)
SpecDescription == InitDescription /\ [][NextExtract]_vars

\* the first meta element named description, as a sequence of at most one index
FirstMeta ==
    LET metas == {i \in DOMAIN soup : soup[i].tag = "meta" /\ soup[i].name = "description"}
    IN  IF metas = {} THEN <<>> ELSE <<CHOOSE i \in metas : \A j \in metas : i <= j>>

\* the blocks selector s contributes when an element's stripped text counts with a
\* length in lo..hi and the meta content, as written, with a length in lo..metaHi
DeclaredBlocks(s, lo, hi, metaHi) ==
    IF s = 7
    THEN IF FirstMeta # <<>> /\ Len(soup[FirstMeta[1]].content) >= lo
                             /\ Len(soup[FirstMeta[1]].content) <= metaHi
         THEN <<soup[FirstMeta[1]].content>> ELSE <<>>
    ELSE LET texts == CandidateTexts(soup, <<DescriptionSelectors[s]>>)
             ok(t) == Len(t) >= lo /\ Len(t) <= hi
         IN  SelectSeq(texts, ok)

DeclaredDescription(lo, hi, metaHi) ==
    LET B(s) == DeclaredBlocks(s, lo, hi, metaHi)
    IN  Strip(Join(B(1) \o B(2) \o B(3) \o B(4) \o B(5) \o B(6) \o B(7) \o B(8)))

\* the length of the longest text or meta content of the document
LongestText ==
    MaxOf({0} \cup {Len(GetText(soup, i)) : i \in DOMAIN soup}
              \cup {Len(soup[i].content) : i \in DOMAIN soup})

\* C9 as stated: the description is the qualifying blocks of all selectors and of
\* the meta tag, joined with a space and trimmed, a block (element or meta)
\* qualifying when its length is in [31, 2999].
C9_DescriptionBlocks31To2999 ==
    Extracted => product_data.description = DeclaredDescription(31, 2999, 2999)

\* C9 as the code has it: the description is, selector by selector, the stripped
\* text of every matching element whose length is in [21, 1999] (an element
\* matched by two selectors counts twice) and the content of the first
\* meta[name=description], as written, when its length is at least 21 (no upper
\* limit), joined with a space and trimmed.
C9_DescriptionBlocks21To1999 ==
    Extracted => product_data.description = DeclaredDescription(21, 1999, LongestText)

\* a 21-character block and a 1999-character block count twice each, the meta
\* content of 21 characters keeps its own spaces, and the 20- and 2000-character
\* blocks are left out
C9_Witness ==
    /\ Extracted
    /\ \E i, j \in DOMAIN soup : /\ Len(StrippedText(soup, i)) = 20
                                 /\ Len(StrippedText(soup, j)) = 2000
    /\ product_data.description =
         Rep("a", 21) \o " " \o Rep("a", 21) \o " " \o Rep("c", 1999) \o "  "
           \o Rep("m", 19) \o "  " \o Rep("c", 1999)

\* a meta content of 3000 characters is part of the description
C9_LongMetaReached ==
    /\ Extracted
    /\ product_data.description = Rep("a", 21) \o " " \o Rep("a", 21) \o " " \o Rep("n", 3000)

(***************************************************************************)
(* Tokenization: the collections analysed and the claim.                   *)
(***************************************************************************)
TokenPieces == {"Wifi", "5", "_", " ", "ñ", "ç"}

RECURSIVE BodiesOfLen(_)
BodiesOfLen(k) ==
    IF k = 0 THEN {""} ELSE {b \o piece : b \in BodiesOfLen(k - 1), piece \in TokenPieces}

Bodies == UNION {BodiesOfLen(k) : k \in 0..MaxPieces}

\* a record as extract_content_from_url returns it, with the feature given
RecordWith(feature) ==
    [url |-> Url, title |-> "Router AX", description |-> "",
     features |-> <<feature, "USB-C 3.1 port">>,
     specifications |-> <<>>, price |-> None, filters |-> <<"Wifi">>,
     categories |-> <<>>]

BaseRecord ==
    [url |-> Url, title |-> "Laptop Pro 15", description |-> "",
     features |-> <<"Pantalla de 15 pulgadas">>,
     specifications |-> <<<<"Color", "Red">>>>, price |-> "$1,299.99",
     filters |-> <<"Wifi", "Red">>, categories |-> <<>>]

\* the collections of records handed to the analysis
InitAnalyze ==
    /\ soup = <<>>
    /\ product_data = NoData
    /\ \E b \in Bodies :
         all_data = <<RecordWith("Router con " \o b \o " dual-band"), BaseRecord>>
    /\ counters = NoCounters
    /\ pc = "analyze"
    /\ out = NoData
    /\ stop_words = StopWords
    /\ NoUrls

SpecAnalyze == InitAnalyze /\ [][NextAnalyze]_vars

\* the maximal runs of class characters of s, as <<first, last>> positions
Runs(s) ==
    {<<a, a + RunLen(s, a, TokenChars) - 1>> :
        a \in {i \in 1..Len(s) : /\ Char(s, i) \in TokenChars
                                 /\ ~(i > 1 /\ Char(s, i - 1) \in TokenChars)}}

\* no letter, digit or underscore is next to the run
Isolated(s, r) == ~IsWordAt(s, r[1] - 1) /\ ~IsWordAt(s, r[2] + 1)

\* the lower-cased texts the two analyses tokenize
TermTexts == <<Lower(AllText(all_data))>>
FeatureTexts == LET f == AllFeaturesFrom(all_data, 1) IN [k \in DOMAIN f |-> Lower(f[k])]

\* the runs of at least 3 characters of the texts, as <<text number, run>>
LongRuns(texts, isolatedOnly) ==
    {x \in UNION {{<<k, r>> : r \in Runs(texts[k])} : k \in DOMAIN texts} :
        /\ x[2][2] - x[2][1] + 1 >= 3
        /\ isolatedOnly => Isolated(texts[x[1]], x[2])}

RunWord(texts, x) == SubSeq(texts[x[1]], x[2][1], x[2][2])

\* counter holds exactly the runs of the texts that are no stopwords, each with
\* the number of times it occurs
CountsRuns(counter, texts, isolatedOnly) ==
    LET runs == LongRuns(texts, isolatedOnly)
        words == {RunWord(texts, x) : x \in runs} \ StopWords
    IN  /\ CounterKeys(counter) = words
        /\ \A w \in words :
             CounterGet(counter, w) = Cardinality({x \in runs : RunWord(texts, x) = w})

\* every key is lower-case, has at least 3 characters, holds no digit and is no
\* stopword
WellFormedKeys(counter) ==
    \A w \in CounterKeys(counter) :
        /\ w = Lower(w)
        /\ Len(w) >= 3
        /\ \A i \in 1..Len(w) : Char(w, i) \notin Digits
        /\ w \notin StopWords

\* a counter that has been computed holds the words of its texts
TermsCounted(isolatedOnly) ==
    counters.terms # NoData =>
        WellFormedKeys(counters.terms) /\ CountsRuns(counters.terms, TermTexts, isolatedOnly)

FeaturesCounted(isolatedOnly) ==
    counters.features # NoData =>
        WellFormedKeys(counters.features)
          /\ CountsRuns(counters.features, FeatureTexts, isolatedOnly)

\* C10 as stated: the tokens are exactly the maximal runs of alphabetic
\* characters of length >= 3 of the lower-cased text that are no stopwords, a run
\* next to a digit or an underscore included.
C10_TokensAreMaximalRuns == TermsCounted(FALSE) /\ FeaturesCounted(FALSE)

\* C10 as the code has it: the tokens are exactly the maximal runs of alphabetic
\* characters of length >= 3 of the lower-cased text that have no letter, digit
\* or underscore directly before or after them and are no stopwords; every token
\* is lower-case, has length >= 3, no digit and is no stopword.
C10_TokensAreIsolatedRuns == TermsCounted(TRUE) /\ FeaturesCounted(TRUE)

\* "Router con Wifi5 dual-band": the stopword and the run before the digit are
\* left out, the other runs are counted
C10_Witness ==
    /\ all_data[1].features[1] = "Router con Wifi5 dual-band"
    /\ counters.features # NoData
    /\ counters.features =
         <<<<"router", 1>>, <<"dual", 1>>, <<"band", 1>>, <<"usb", 1>>, <<"port", 1>>,
           <<"pantalla", 1>>, <<"pulgadas", 1>>>>
    /\ counters.terms # NoData
    /\ CounterGet(counters.terms, "router") = 2
    /\ CounterGet(counters.terms, "wifi") = 0

\* an accented letter is part of a token
C10_AccentReached ==
    /\ all_data[1].features[1] = "Router con ñWifi dual-band"
    /\ counters.features # NoData
    /\ CounterGet(counters.features, "ñwifi") = 1

\* a run next to a letter that is not in the class is no token
C10_OtherLetterReached ==
    /\ all_data[1].features[1] = "Router con çWifi dual-band"
    /\ counters.features # NoData
    /\ CounterGet(counters.features, "wifi") = 0

(***************************************************************************)
(* Noise classifier: is_transactional(text).  The analyzer of              *)
(* streamlit_app.py has no such method; it is written here as the          *)
(* specification's section 4.2 gives it.                                   *)
(***************************************************************************)
\* the phrases section 4.2 and the example of section 7 name
TransactionalPhrases ==
    {"add to cart", "buy now", "free shipping", "my account",
     "añadir al carrito", "comprar ahora", "envío gratis"}

\* the stopword/noise lexicon: the stopwords and the transactional vocabulary
NoiseLexicon == StopWords \cup {"cart", "price", "shipping", "review"}

\* the occurrences of phrase in text from position i on
RECURSIVE OccurrencesFrom(_, _, _)
OccurrencesFrom(text, phrase, i) ==
    IF i + Len(phrase) - 1 > Len(text) THEN 0
    ELSE IF SubSeq(text, i, i + Len(phrase) - 1) = phrase
         THEN 1 + OccurrencesFrom(text, phrase, i + Len(phrase))
         ELSE OccurrencesFrom(text, phrase, i + 1)

RECURSIVE PhraseCountOver(_, _)
PhraseCountOver(text, phrases) ==
    IF phrases = {} THEN 0
    ELSE LET ph == CHOOSE x \in phrases : TRUE
         IN  OccurrencesFrom(text, ph, 1) + PhraseCountOver(text, phrases \ {ph})

\* signal (a): the number of occurrences of the phrases in the text
PhraseCount(text) == PhraseCountOver(Lower(text), TransactionalPhrases)

\* signal (b): the words of the text that are in the lexicon, and all its words
NoiseWordCount(text) == Len(SelectSeq(SplitWords(Lower(text)), LAMBDA w : w \in NoiseLexicon))
WordCount(text) == Len(SplitWords(text))

\* mutant: two occurrences are enough
IsTransactionalFromTwo(text) ==
    \/ PhraseCount(text) >= 2
    \/ 100 * NoiseWordCount(text) > 30 * WordCount(text)

\* more than 2 occurrences, or more than 0.30 of the words in the lexicon
IsTransactional(text) ==
    \/ PhraseCount(text) > 2
    \/ 100 * NoiseWordCount(text) > 30 * WordCount(text)

\* the call is_transactional(text) on the text of the block
Classify ==
    /\ pc = "classify"
    /\ out' = IsTransactional(GetText(soup, 1))
    /\ pc' = "classified"
    /\ UNCHANGED <<soup, product_data, all_data, counters, stop_words,
                 urls_input, urls, url_index, failed_count>>

NextClassify == Classify

(***************************************************************************)
(* Noise classifier: the texts checked and the claim.                      *)
(***************************************************************************)
ClassifierPieces ==
    {"Add to cart.", "Buy Now", "free shipping", "Pantalla OLED", "de la", "grande"}

RECURSIVE BlocksOfLen(_)
BlocksOfLen(k) ==
    IF k = 0 THEN {""}
    ELSE {IF b = "" THEN piece ELSE b \o " " \o piece :
            b \in BlocksOfLen(k - 1), piece \in ClassifierPieces}

ClassifierTexts ==
    UNION {BlocksOfLen(k) : k \in 0..MaxPieces}
      \cup {"Añadir al carrito. Comprar ahora. Envío gratis. Ver más."}

InitClassify ==
    /\ \E text \in ClassifierTexts : soup = <<El("div", "description", text, 0)>>
    /\ product_data = NoData
    /\ all_data = <<>>
    /\ counters = NoCounters
    /\ pc = "classify"
    /\ out = NoData
    /\ stop_words = StopWords
    /\ NoUrls

SpecClassify == InitClassify /\ [][NextClassify]_vars

\* the places of the lower-cased text where one of the phrases starts
PhrasePlaces(text) ==
    LET low == Lower(text)
    IN  {x \in TransactionalPhrases \X (1..Len(low)) :
            /\ x[2] + Len(x[1]) - 1 <= Len(low)
            /\ SubSeq(low, x[2], x[2] + Len(x[1]) - 1) = x[1]}

\* the share of the words of the text that are in the lexicon is above 0.30
NoisyWords(text) ==
    LET words == SplitWords(Lower(text))
    IN  10 * Cardinality({k \in DOMAIN words : words[k] \in NoiseLexicon}) > 3 * Len(words)

C11_WordSignalReached ==
    /\ pc = "classified"
    /\ GetText(soup, 1) = "Pantalla OLED de la de la"
    /\ out = TRUE

\* two phrases and few noise words: not transactional
C11_NeitherSignalReached ==
    /\ pc = "classified"
    /\ GetText(soup, 1) = "Add to cart. Buy Now Pantalla OLED"
    /\ out = FALSE

(***************************************************************************)
(* Counter.most_common(n) as main calls it on the tables (lines 672, 712,  *)
(* 758, 1065): the n entries of highest count, highest first; among equal  *)
(* counts the entry inserted first comes first (heapq.nlargest and sorted  *)
(* are stable).                                                            *)
(***************************************************************************)
Without(seq, i) == [k \in 1..(Len(seq) - 1) |-> IF k < i THEN seq[k] ELSE seq[k + 1]]

\* mutant: among equal counts the entry inserted last comes first
RECURSIVE MostCommonLastFirst(_, _)
MostCommonLastFirst(c, n) ==
    IF n <= 0 \/ c = <<>> THEN <<>>
    ELSE LET best == CHOOSE i \in DOMAIN c :
                        /\ \A j \in DOMAIN c : c[j][2] <= c[i][2]
                        /\ \A j \in DOMAIN c : j > i => c[j][2] < c[i][2]
         IN  <<c[best]>> \o MostCommonLastFirst(Without(c, best), n - 1)

RECURSIVE MostCommon(_, _)
MostCommon(c, n) ==
    IF n <= 0 \/ c = <<>> THEN <<>>
    ELSE LET best == CHOOSE i \in DOMAIN c :
                        /\ \A j \in DOMAIN c : c[j][2] <= c[i][2]
                        /\ \A j \in DOMAIN c : j < i => c[j][2] < c[i][2]
         IN  <<c[best]>> \o MostCommon(Without(c, best), n - 1)

\* main, line 458: the slider of top_n goes from 5 to 50; line 1065 asks for 1
TopNs == {1, 5, 50}

\* lines 671-672: top_terms = terms.most_common(top_n)
TopTerms ==
    /\ pc = "analyze"
    /\ counters.terms # NoData
    /\ out = NoData
    /\ \E n \in TopNs : out' = <<n, MostCommon(counters.terms, n)>>
    /\ UNCHANGED <<soup, product_data, all_data, counters, pc, stop_words,
                 urls_input, urls, url_index, failed_count>>

NextAggregate == AnalyzeTerms \/ AnalyzeFilters \/ AnalyzeFeatures \/ TopTerms

(***************************************************************************)
(* Aggregation: the collections of records checked.                        *)
(***************************************************************************)
TvRecord ==
    [url |-> Url, title |-> "Smart TV OLED", description |-> "Pantalla OLED de gran brillo",
     features |-> <<"Pantalla grande", "Batería larga duración">>,
     specifications |-> <<<<"Color", "Negro">>>>, price |-> "",
     filters |-> <<"Samsung", "OLED">>, categories |-> <<>>]

MonitorRecord ==
    [url |-> Url, title |-> "Monitor OLED gaming", description |-> "",
     features |-> <<"pantalla GRANDE", "Resistente al agua">>,
     specifications |-> <<<<"Pantalla", "OLED grande">>, <<"Peso", "5 kg">>>>,
     price |-> "199,90 EUR", filters |-> <<"OLED", "oled", "Smart TV">>,
     categories |-> <<"Monitores">>]

\* the record of a page on which nothing was found
EmptyRecord ==
    [url |-> Url, title |-> "", description |-> "", features |-> <<>>,
     specifications |-> <<>>, price |-> "", filters |-> <<>>, categories |-> <<>>]

\* a record without the fields the analysis reads
BareRecord == [url |-> Url]

RecordPool == {TvRecord, MonitorRecord, EmptyRecord, BareRecord}

RECURSIVE CollectionsOfLen(_)
CollectionsOfLen(k) ==
    IF k = 0 THEN {<<>>}
    ELSE {Append(c, r) : c \in CollectionsOfLen(k - 1), r \in RecordPool}

Collections == UNION {CollectionsOfLen(k) : k \in 0..MaxRecords}

InitAggregate ==
    /\ soup = <<>>
    /\ product_data = NoData
    /\ all_data \in Collections
    /\ counters = NoCounters
    /\ pc = "analyze"
    /\ out = NoData
    /\ stop_words = StopWords
    /\ NoUrls

SpecAggregate == InitAggregate /\ [][NextAggregate]_vars

\* the number of tokens equal to word that tokenizing text gives: the isolated
\* runs of at least 3 class characters of the lower-cased text
Occurrences(word, text) ==
    LET low == <<Lower(text)>>
    IN  IF word \in StopWords THEN 0
        ELSE Cardinality({x \in LongRuns(low, TRUE) : RunWord(low, x) = word})

\* the sum of f[k] over the domain of the sequence f
RECURSIVE SumFrom(_, _)
SumFrom(f, k) == IF k > Len(f) THEN 0 ELSE f[k] + SumFrom(f, k + 1)
Sum(f) == SumFrom(f, 1)

\* the text pool of one record with title, description, features, keys and
\* values put in once each; the fields after the description follow each other
\* with nothing in between
PoolOnce(r) ==
    " " \o Get(r, "title", "") \o " " \o Get(r, "description", "") \o " "
      \o Join(Get(r, "features", <<>>))
      \o Join(KeysOf(Get(r, "specifications", <<>>)))
      \o Join(ValuesOf(Get(r, "specifications", <<>>)))

\* the occurrences of word in the texts of a sequence, each text on its own
InTexts(word, texts) == Sum([k \in DOMAIN texts |-> Occurrences(word, texts[k])])

\* what a record gives to the count of word when title and features weigh 2
\* and description, keys and values weigh 1
WeightedShare(word, r) ==
    2 * Occurrences(word, Get(r, "title", ""))
      + 2 * InTexts(word, Get(r, "features", <<>>))
      + Occurrences(word, Get(r, "description", ""))
      + InTexts(word, KeysOf(Get(r, "specifications", <<>>)))
      + InTexts(word, ValuesOf(Get(r, "specifications", <<>>)))

\* C12 as stated: in the table of analyze_terms each token occurrence in a title
\* or in a feature counts 2 and each occurrence in a specification key or value
\* counts 1.
C12_TitleAndFeaturesCountTwice ==
    counters.terms # NoData =>
        \A w \in CounterKeys(counters.terms) :
            CounterGet(counters.terms, w)
              = Sum([k \in DOMAIN all_data |-> WeightedShare(w, all_data[k])])

\* C12 as the code has it: every field is in the pool once; the count of a token
\* is the number of its occurrences in the pooled texts of the records, where a
\* record's pool is " title description " followed by the features, the keys and
\* the values, each list joined by spaces.
C12_EveryFieldCountsOnce ==
    counters.terms # NoData =>
        CountsRuns(counters.terms,
                   [k \in DOMAIN all_data |-> Lower(PoolOnce(all_data[k]))], TRUE)

\* "pantalla" is once in the description and once in a feature of the first
\* record, once in a feature of the second: 3, not 5
C12_Witness ==
    /\ all_data = <<TvRecord, MonitorRecord>>
    /\ counters.terms # NoData
    /\ CounterGet(counters.terms, "pantalla") = 3
    /\ CounterGet(counters.terms, "smart") = 1
    /\ CounterGet(counters.terms, "oled") = 3

\* the <<record, position>> places of the list under field in the collection
Places(data, field) ==
    UNION {{<<k, i>> : i \in DOMAIN Get(data[k], field, <<>>)} : k \in DOMAIN data}

\* the strings the filter counts are asked for: every filter of the pool, its
\* case-folded form and its tokens
FilterStrings ==
    LET given == UNION {{Get(r, "filters", <<>>)[i] : i \in DOMAIN Get(r, "filters", <<>>)} :
                          r \in RecordPool}
    IN  given \cup {Lower(f) : f \in given}
              \cup UNION {{t[i] : i \in DOMAIN t} : t \in {Tokenize(f) : f \in given}}

\* C13: the count of a string in the table of analyze_filters is the number of
\* places of the records' filters fields that hold exactly that string, without
\* tokenization or case folding; a string that is in no record has no entry.
C13_FiltersCountedVerbatim ==
    counters.filters # NoData =>
        /\ \A f \in FilterStrings :
             CounterGet(counters.filters, f)
               = Cardinality({x \in Places(all_data, "filters") :
                                all_data[x[1]].filters[x[2]] = f})
        /\ \A f \in CounterKeys(counters.filters) :
             \E x \in Places(all_data, "filters") : all_data[x[1]].filters[x[2]] = f

\* "OLED" twice and "oled" once are counted apart; "Smart TV" is one entry
C13_Witness ==
    /\ all_data = <<TvRecord, MonitorRecord>>
    /\ counters.filters # NoData
    /\ counters.filters = <<<<"Samsung", 1>>, <<"OLED", 2>>, <<"oled", 1>>, <<"Smart TV", 1>>>>

\* the tokens of the features of a record, feature by feature
FeatureTokenCount(word, r) == InTexts(word, Get(r, "features", <<>>))

\* the words the feature counts are asked for: the tokens of every field of the
\* records of the pool
PoolWords ==
    UNION {{t[i] : i \in DOMAIN t} : t \in {Tokenize(PoolOnce(r)) : r \in RecordPool}}
      \cup UNION {LET f == Get(r, "features", <<>>)
                  IN  UNION {{Tokenize(f[i])[j] : j \in DOMAIN Tokenize(f[i])} : i \in DOMAIN f} :
                    r \in RecordPool}

\* C14: the count of a token in the table of analyze_features is the sum, over
\* every feature of every record, of the times tokenizing that feature gives the
\* token; title, description and specifications add nothing, and the case of the
\* feature does not matter.
C14_FeatureTokensOnly ==
    counters.features # NoData =>
        /\ \A w \in PoolWords :
             CounterGet(counters.features, w)
               = Sum([k \in DOMAIN all_data |-> FeatureTokenCount(w, all_data[k])])
        /\ CounterKeys(counters.features) \subseteq PoolWords

\* 'Pantalla grande' and 'pantalla GRANDE': pantalla = 2 and grande = 2, though
\* the description and a specification value hold them too
C14_Witness ==
    /\ all_data = <<TvRecord, MonitorRecord>>
    /\ counters.features # NoData
    /\ CounterGet(counters.features, "pantalla") = 2
    /\ CounterGet(counters.features, "grande") = 2
    /\ CounterGet(counters.features, "oled") = 0
    /\ CounterGet(counters.features, "smart") = 0

\* the collection taken in another order
Reordered(data) == {[i \in DOMAIN data |-> data[f[i]]] : f \in Permutations(DOMAIN data)}

\* a table as a mapping: its <<token, count>> pairs without their order
Mapping(c) == {c[i] : i \in DOMAIN c}

\* C15: for every permutation of the collection each of analyze_terms,
\* analyze_filters and analyze_features returns the same token-to-count mapping
\* as for the collection itself.
C15_OrderIndependent ==
    /\ counters.terms # NoData =>
         \A d \in Reordered(all_data) : Mapping(AnalyzeTermsOf(d)) = Mapping(counters.terms)
    /\ counters.filters # NoData =>
         \A d \in Reordered(all_data) : Mapping(AnalyzeFiltersOf(d)) = Mapping(counters.filters)
    /\ counters.features # NoData =>
         \A d \in Reordered(all_data) : Mapping(AnalyzeFeaturesOf(d)) = Mapping(counters.features)

\* two different records: in the other order the tables list their entries in
\* another order and hold the same counts
C15_Witness ==
    /\ all_data = <<TvRecord, MonitorRecord>>
    /\ counters.terms # NoData /\ counters.filters # NoData /\ counters.features # NoData
    /\ AnalyzeTermsOf(<<MonitorRecord, TvRecord>>) # counters.terms
    /\ AnalyzeFiltersOf(<<MonitorRecord, TvRecord>>) # counters.filters
    /\ AnalyzeFeaturesOf(<<MonitorRecord, TvRecord>>) # counters.features
    /\ CounterGet(counters.terms, "oled") = 3

\* the position of the entry of key in a table
PosOf(c, key) == CHOOSE i \in DOMAIN c : c[i][1] = key

\* a ranks before b in table c: its count is higher, or equal and a was put in
\* first
RanksBefore(c, a, b) ==
    \/ a[2] > b[2]
    \/ a[2] = b[2] /\ PosOf(c, a[1]) < PosOf(c, b[1])

\* C16: top-N of a table returns min(N, size) of its <<token, count>> entries,
\* counts descending, entries of equal count in the order of their first
\* insertion, and every entry left out ranks after every entry returned; with N
\* above the table's size all entries are returned.
C16_TopNStableRanking ==
    out # NoData =>
        LET n == out[1]
            top == out[2]
            c == counters.terms
        IN  /\ Len(top) = IF n < Len(c) THEN n ELSE Len(c)
            /\ \A i \in DOMAIN top : \E j \in DOMAIN c : c[j] = top[i]
            /\ \A i, j \in DOMAIN top : i < j => RanksBefore(c, top[i], top[j])
            /\ \A i \in DOMAIN top : \A j \in DOMAIN c :
                 c[j] \notin Mapping(top) => RanksBefore(c, top[i], c[j])

\* three tokens with count 3 come first in the order they entered the table, the
\* first two tokens of count 1 follow, the other entries of count 1 are cut off
C16_Witness ==
    /\ all_data = <<TvRecord, MonitorRecord>>
    /\ out # NoData
    /\ out = <<5, <<<<"oled", 3>>, <<"pantalla", 3>>, <<"grande", 3>>,
                    <<"smart", 1>>, <<"gran", 1>>>>>>

\* N above the size of a table that has entries
C16_AllReturned ==
    /\ out # NoData
    /\ out[1] = 50
    /\ Len(counters.terms) > 5
    /\ Len(out[2]) = Len(counters.terms)

\* N = 1 on a table whose highest count is shared
C16_TieCut ==
    /\ all_data = <<TvRecord, MonitorRecord>>
    /\ out # NoData
    /\ out = <<1, <<<<"oled", 3>>>>>>

\* every field the analyses read is empty or missing
Blank(r) ==
    /\ Get(r, "title", "") = "" /\ Get(r, "description", "") = ""
    /\ Get(r, "features", <<>>) = <<>> /\ Get(r, "specifications", <<>>) = <<>>
    /\ Get(r, "filters", <<>>) = <<>>

\* C17: for the empty collection, and for a collection of records whose fields
\* are all empty or missing, analyze_terms, analyze_filters and analyze_features
\* each return the empty table.
C17_EmptyInputEmptyTables ==
    (\A k \in DOMAIN all_data : Blank(all_data[k])) =>
        /\ counters.terms # NoData => counters.terms = <<>>
        /\ counters.filters # NoData => counters.filters = <<>>
        /\ counters.features # NoData => counters.features = <<>>

\* the three analyses have returned for the empty collection
C17_Witness ==
    /\ all_data = <<>>
    /\ counters.terms # NoData /\ counters.filters # NoData /\ counters.features # NoData
    /\ counters = [terms |-> <<>>, filters |-> <<>>, features |-> <<>>]

\* ... and for a record with empty fields followed by one without fields
C17_BlankRecordsReached ==
    /\ all_data = <<EmptyRecord, BareRecord>>
    /\ counters.terms # NoData /\ counters.filters # NoData /\ counters.features # NoData
    /\ counters = [terms |-> <<>>, filters |-> <<>>, features |-> <<>>]

(***************************************************************************)
(* The same page extracted by two runs of the program.  The order in which *)
(* list(set(filters)) lists the strings follows their hashes, which Python *)
(* seeds anew for every process: the second run makes its own choice.      *)
(***************************************************************************)
\* main, line 561, in a second run: the first run's result is kept in out for
\* the comparison and the page is extracted again
Rerun ==
    /\ pc \in {"extracted", "failed"}
    /\ out = NoData
    /\ out' = <<pc, product_data>>
    /\ product_data' = NoData
    /\ pc' = "start"
    /\ UNCHANGED <<soup, all_data, counters, stop_words,
                 urls_input, urls, url_index, failed_count>>

NextRerun == ExtractOk \/ ExtractFail \/ Rerun

RerunDocs ==
    Docs(FilterPool, MaxNodes)
      \cup { <<El("nav", "", "", 0), El("a", "", "Laptops", 1), El("a", "", "Tablets", 1)>>,
             MixedFilterDoc }

InitRerun == InitExtract(RerunDocs)
SpecRerun == InitRerun /\ [][NextRerun]_vars

\* both runs have returned a record
BothExtracted == pc = "extracted" /\ out # NoData /\ out[1] = "extracted"

\* C18: two extractions of the same document return records that are equal in
\* every field, the filters field with its strings and their order included.
C18_SameDocumentSameRecord == BothExtracted => product_data = out[2]

\* what does hold of these pages, which have fewer than 100 filters: the two
\* records differ in nothing but the order of the filters
C18_OnlyFilterOrderDiffers ==
    BothExtracted =>
        /\ \A f \in DOMAIN product_data \ {"filters"} : product_data[f] = out[2][f]
        /\ Range(product_data.filters) = Range(out[2].filters)

\* the two runs list the two filters of a page in opposite orders
C18_OrderDiffers ==
    /\ BothExtracted
    /\ out[2].filters = <<"Laptops", "Tablets">>
    /\ product_data.filters = <<"Tablets", "Laptops">>

(***************************************************************************)
(* Records: documents made of one fragment for each of any of the fields.  *)
(***************************************************************************)
FieldNames ==
    <<"title", "description", "features", "specifications", "price", "filters", "categories">>

\* a fragment from which one field, and no other, finds a qualifying candidate
FieldFragment(field) ==
    CASE field = "title" -> <<El("h1", "", "Laptop Pro 15", 0)>>
      [] field = "description" -> <<El("div", "summary", "A fast laptop for everyday work", 0)>>
      [] field = "features" ->
           <<El("ul", "benefits", "", 0), El("li", "", "Long battery life", 1)>>
      [] field = "specifications" ->
           <<El("table", "", "", 0), El("tr", "", "", 1),
             El("td", "", "Color", 2), El("td", "", "Black", 2)>>
      [] field = "price" -> <<El("span", "cost", "Now 19,99 EUR", 0)>>
      [] field = "filters" -> <<El("span", "badge", "Gaming", 0)>>
      [] field = "categories" -> <<El("ol", "breadcrumb", "", 0), El("a", "", "Laptops", 1)>>

\* the value the field has when its fragment is in the document
FieldValue(field) ==
    CASE field = "title" -> "Laptop Pro 15"
      [] field = "description" -> "A fast laptop for everyday work"
      [] field = "features" -> <<"Long battery life">>
      [] field = "specifications" -> <<<<"Color", "Black">>>>
      [] field = "price" -> "19,99 EUR"
      [] field = "filters" -> <<"Gaming">>
      [] field = "categories" -> <<"Laptops", "Laptops", "Laptops">>

\* the default of a field: empty string, empty sequence or empty mapping
FieldDefault(field) == IF field \in {"title", "description", "price"} THEN "" ELSE <<>>

\* the document with the fragments of the fields of S among the first k
RECURSIVE FieldDocUpTo(_, _)
FieldDocUpTo(S, k) ==
    IF k = 0 THEN <<>>
    ELSE IF FieldNames[k] \in S
         THEN Attach(FieldDocUpTo(S, k - 1), FieldFragment(FieldNames[k]), 0)
         ELSE FieldDocUpTo(S, k - 1)

FieldDocs == {FieldDocUpTo(S, Len(FieldNames)) : S \in SUBSET Range(FieldNames)}

InitRecord == InitExtract(FieldDocs)
SpecRecord == InitRecord /\ [][NextExtract]_vars

\* the document holds the fragment of the field
HasFragment(doc, field) == FieldFragment(field)[1] \in Range(doc)

C19_AllDefaultsReached ==
    /\ Extracted
    /\ soup = <<>>
    /\ \A f \in Range(FieldNames) : product_data[f] = FieldDefault(f)

\* the element blocks of the description, one for each selector that finds the
\* element, and the meta content that is part of it (at most one)
ElementBlocks ==
    LET B(s) == DeclaredBlocks(s, 21, 1999, LongestText)
    IN  B(1) \o B(2) \o B(3) \o B(4) \o B(5) \o B(6) \o B(8)
MetaBlock == DeclaredBlocks(7, 21, 1999, LongestText)

\* C20 as stated: the description of an extracted record has at most 3000
\* characters.
C20_DescriptionAtMost3000 == Extracted => Len(product_data.description) <= 3000

\* C20 as the code has it: the description has no cap of its own.  Each of its n
\* element blocks has at most 1999 characters and is followed by a space, the
\* meta content has any length m, and the last space is trimmed: the length is
\* at most 2000 n - 1, plus m + 1 with a meta content, and 0 without any block.
C20_DescriptionBoundedByItsBlocks ==
    Extracted =>
        LET n == Len(ElementBlocks)
            m == IF MetaBlock = <<>> THEN 0 ELSE Len(MetaBlock[1]) + 1
        IN  /\ \A i \in DOMAIN ElementBlocks : Len(ElementBlocks[i]) <= 1999
            /\ Len(product_data.description) <= (IF n + m = 0 THEN 0 ELSE 2000 * n + m - 1)

\* one element of 1999 characters found by two selectors: 3999 characters
C20_Witness ==
    /\ Extracted
    /\ Len(ElementBlocks) = 2
    /\ product_data.description = Rep("c", 1999) \o " " \o Rep("c", 1999)
    /\ Len(product_data.description) = 3999

\* a meta content of 3000 characters after two blocks
C20_MetaBeyondCapReached ==
    /\ Extracted
    /\ MetaBlock # <<>>
    /\ Len(product_data.description) = 3044

(***************************************************************************)
(* Description: pages with transactional blocks and with blocks in         *)
(* elements of an excluded class or id.                                    *)
(***************************************************************************)
NoisePool ==
    { <<El("div", "product-description", "Add to cart. Buy now. Free shipping today", 0)>>,
      <<El("div", "cart-summary", "Pantalla OLED grande con altavoces integrados", 0)>>,
      <<WithId(El("div", "overview", "Marco fino de aluminio cepillado", 0), "price-box")>>,
      <<El("div", "details", "Procesador rapido y memoria amplia", 0)>> }

NoiseDocs == Docs(NoisePool, MaxNodes)

InitNoise == InitExtract(NoiseDocs)
SpecNoise == InitNoise /\ [][NextExtract]_vars

\* the element is found by one of the description selectors for elements
DescriptionLike(node) ==
    \/ \E w \in {"description", "summary", "overview", "details", "content"} :
         Contains(node.class, w)
    \/ Contains(node.testid, "description")

\* the elements whose text is a candidate block of the right length
CandidateElements ==
    {i \in DOMAIN soup : /\ DescriptionLike(soup[i])
                         /\ Len(StrippedText(soup, i)) >= 21
                         /\ Len(StrippedText(soup, i)) <= 1999}

PositiveIndicators == {"characteristics", "specifications", "includes", "material", "size"}
NegativeIndicators == {"cart", "buy", "price", "shipping", "review"}

\* positive count strictly above negative count and trimmed length above 20
SentenceIsRelevant(sentence) ==
    /\ PhraseCountOver(Lower(sentence), PositiveIndicators)
         > PhraseCountOver(Lower(sentence), NegativeIndicators)
    /\ Len(Strip(sentence)) > 20

\* the text split on its periods
RECURSIVE SentencesFrom(_, _, _)
SentencesFrom(text, i, cur) ==
    IF i > Len(text) THEN <<cur>>
    ELSE IF Char(text, i) = "." THEN <<cur>> \o SentencesFrom(text, i + 1, "")
    ELSE SentencesFrom(text, i + 1, cur \o Char(text, i))

Sentences(text) == SentencesFrom(text, 1, "")

\* the relevant sentences of a description, joined by spaces
RelevantPart(description) == Join(SelectSeq(Sentences(description), SentenceIsRelevant))

(***************************************************************************)
(* Descriptions of several sentences: the collections checked.             *)
(***************************************************************************)
SentenceRecord(title, description) ==
    [url |-> Url, title |-> title, description |-> description, features |-> <<>>,
     specifications |-> <<>>, price |-> "", filters |-> <<>>, categories |-> <<>>]

SentencePool ==
    { \* a relevant sentence
      SentenceRecord("", "Includes a case of big size."),
      \* a negative sentence and a tie
      SentenceRecord("", "Buy now. Material at a fair price."),
      \* a positive sentence of 12 characters
      SentenceRecord("Alu case", "Size matters. Alu.") }

RECURSIVE SentenceCollectionsOfLen(_)
SentenceCollectionsOfLen(k) ==
    IF k = 0 THEN {<<>>}
    ELSE {Append(c, r) : c \in SentenceCollectionsOfLen(k - 1), r \in SentencePool}

InitSentences ==
    /\ soup = <<>>
    /\ product_data = NoData
    /\ all_data \in UNION {SentenceCollectionsOfLen(k) : k \in 0..MaxRecords}
    /\ counters = NoCounters
    /\ pc = "analyze"
    /\ out = NoData
    /\ stop_words = StopWords
    /\ NoUrls

SpecSentences == InitSentences /\ [][NextAggregate]_vars

\* the pool of a record with d in the place of its description
PoolWithDescription(r, d) ==
    " " \o Get(r, "title", "") \o " " \o d \o " "
      \o Join(Get(r, "features", <<>>))
      \o Join(KeysOf(Get(r, "specifications", <<>>)))
      \o Join(ValuesOf(Get(r, "specifications", <<>>)))

SentenceWords ==
    UNION {UNION {Range(Tokenize(s)) : s \in Range(Sentences(Get(all_data[k], "description", "")))} :
             k \in DOMAIN all_data}

FieldShare(word, r) ==
    Occurrences(word, Get(r, "title", ""))
      + Occurrences(word, Get(r, "description", ""))
      + InTexts(word, Get(r, "features", <<>>))
      + InTexts(word, KeysOf(Get(r, "specifications", <<>>)))
      + InTexts(word, ValuesOf(Get(r, "specifications", <<>>)))

\* C23: in the table of analyze_terms every counted token is a token of one
\* field value, and its count is the sum of its counts in the titles, the
\* descriptions, the features, the specification keys and the specification
\* values, each tokenized on its own; no token joins two fields.
C23_CountsAreSumsOverFields ==
    counters.terms # NoData =>
        \A w \in CounterKeys(counters.terms) \cup PoolWords :
            CounterGet(counters.terms, w)
              = Sum([k \in DOMAIN all_data |-> FieldShare(w, all_data[k])])

\* the last feature "Resistente al agua" and the first key "Pantalla" are
\* counted as "aguapantalla", the last key "Peso" and the first value "OLED
\* grande" as "pesooled"
C23_MergedTokensReached ==
    /\ all_data = <<MonitorRecord>>
    /\ counters.terms # NoData
    /\ CounterGet(counters.terms, "aguapantalla") = 1
    /\ CounterGet(counters.terms, "pesooled") = 1
    /\ CounterGet(counters.terms, "agua") = 0
    /\ CounterGet(counters.terms, "peso") = 0
    /\ CounterGet(counters.terms, "oled") = 1

(***************************************************************************)
(* The analyses called again on the same collection, as main does for its  *)
(* tabs and its report (lines 805, 833, 982-1002, 1063-1069, 1094-1104).   *)
(***************************************************************************)
AnalysisNames == {"terms", "filters", "features"}

AnalysisOf(name, data) ==
    CASE name = "terms" -> AnalyzeTermsOf(data)
      [] name = "filters" -> AnalyzeFiltersOf(data)
      [] name = "features" -> AnalyzeFeaturesOf(data)

\* mutant: the call takes the last record off the collection
AnalyzeAgainConsuming ==
    /\ pc = "analyze"
    /\ \E name \in AnalysisNames :
         /\ counters[name] # NoData
         /\ out' = <<name, AnalysisOf(name, all_data)>>
    /\ all_data' = SubSeq(all_data, 1, Len(all_data) - 1)
    /\ UNCHANGED <<soup, product_data, counters, pc, stop_words,
                 urls_input, urls, url_index, failed_count>>

\* a later call of an analysis that has been called before; out holds the name
\* of the analysis and the table this call returned
AnalyzeAgain ==
    /\ pc = "analyze"
    /\ \E name \in AnalysisNames :
         /\ counters[name] # NoData
         /\ out' = <<name, AnalysisOf(name, all_data)>>
    /\ UNCHANGED <<soup, product_data, all_data, counters, pc, stop_words,
                 urls_input, urls, url_index, failed_count>>

NextRepeat == AnalyzeTerms \/ AnalyzeFilters \/ AnalyzeFeatures \/ AnalyzeAgain

SpecRepeat == InitAggregate /\ [][NextRepeat]_vars

MaxLines == 3

\* line 529: the prefixes a line is tested for
UrlSchemes == {"http://", "https://"}

\* line 529: the condition of the comprehension, on the line as it was typed
IsUrlLine(line) == Strip(line) # "" /\ StartsWithAny(line, UrlSchemes)

\* line 529: urls = [url.strip() for url in lines if ...]
ValidUrls(lines) ==
    LET kept == SelectSeq(lines, IsUrlLine)
    IN  [k \in 1..Len(kept) |-> Strip(kept[k])] \o <<>>

\* line 525: not urls_input.strip(), on the lines of the text
IsBlankInput(lines) == \A k \in 1..Len(lines) : Strip(lines[k]) = ""

\* lines 90-99: the record of a page
ProductData(url, doc, order) ==
    [url |-> url,
     title |-> ExtractTitle(doc),
     description |-> ExtractDescription(doc),
     features |-> ExtractFeatures(doc),
     specifications |-> ExtractSpecifications(doc),
     price |-> ExtractPrice(doc),
     filters |-> CapFilters(order),
     categories |-> ExtractCategories(doc)]

\* the page every URL that answers returns
WebPage == <<El("h1", "", "Monitor OLED", 0)>>

\* lines 525-555: the button was pressed; the two early returns, or the loop starts
StartAnalysis ==
    /\ pc = "input"
    /\ IF IsBlankInput(urls_input) \/ Len(ValidUrls(urls_input)) = 0
       THEN /\ pc' = "stopped"
            /\ UNCHANGED <<urls, all_data, failed_count>>
       ELSE /\ urls' = ValidUrls(urls_input)
            /\ all_data' = <<>>
            /\ failed_count' = 0
            /\ pc' = "loop"
    /\ UNCHANGED <<soup, product_data, counters, out, stop_words, urls_input, url_index>>

\* mutant: a collected record is counted as a failure as well
ProcessUrlOkCountedTwice ==
    /\ pc = "loop"
    /\ url_index < Len(urls)
    /\ \E order \in SetOrders(FilterCandidates(WebPage)) :
         all_data' = Append(all_data, ProductData(urls[url_index + 1], WebPage, order))
    /\ failed_count' = failed_count + 1
    /\ url_index' = url_index + 1
    /\ UNCHANGED <<soup, product_data, counters, pc, out, stop_words, urls_input, urls>>

\* lines 557-563, 568-569: one iteration whose extract_content_from_url returned a record
ProcessUrlOk ==
    /\ pc = "loop"
    /\ url_index < Len(urls)
    /\ \E order \in SetOrders(FilterCandidates(WebPage)) :
         all_data' = Append(all_data, ProductData(urls[url_index + 1], WebPage, order))
    /\ url_index' = url_index + 1
    /\ UNCHANGED <<soup, product_data, counters, pc, out, stop_words,
                   urls_input, urls, failed_count>>

\* lines 557-561, 564-569: one iteration whose extract_content_from_url returned None
\* (lines 102-107: the request or the parsing raised)
ProcessUrlFail ==
    /\ pc = "loop"
    /\ url_index < Len(urls)
    /\ failed_count' = failed_count + 1
    /\ url_index' = url_index + 1
    /\ UNCHANGED <<soup, product_data, all_data, counters, pc, out, stop_words,
                   urls_input, urls>>

\* line 572: the list is exhausted
LoopEnd ==
    /\ pc = "loop"
    /\ url_index = Len(urls)
    /\ pc' = "collected"
    /\ UNCHANGED <<soup, product_data, all_data, counters, out, stop_words,
                   urls_input, urls, url_index, failed_count>>

NextLoop == StartAnalysis \/ ProcessUrlOk \/ ProcessUrlFail \/ LoopEnd

\* the lines typed: URLs of both schemes, another scheme, a blank line, and blanks
\* before and after a URL
LinePool == {"https://a", "http://b ", "ftp://c", " https://d", ""}

RECURSIVE LinesOfLen(_)
LinesOfLen(k) ==
    IF k = 0 THEN {<<>>}
    ELSE {Append(ls, l) : ls \in LinesOfLen(k - 1), l \in LinePool}

InitLoop ==
    /\ soup = <<>>
    /\ product_data = NoData
    /\ all_data = <<>>
    /\ counters = NoCounters
    /\ pc = "input"
    /\ out = NoData
    /\ stop_words = StopWords
    /\ urls_input \in UNION {LinesOfLen(k) : k \in 1..MaxLines}
    /\ urls = <<>>
    /\ url_index = 0
    /\ failed_count = 0

SpecLoop == InitLoop /\ [][NextLoop]_vars

\* the script runs on: requests.get has a timeout of 15 seconds (line 83) and
\* time.sleep(delay) returns, so an iteration that can be taken is taken
SpecLoopFair == SpecLoop /\ WF_vars(NextLoop)

\* the URLs of the records collected so far
RecordUrls == [k \in 1..Len(all_data) |-> all_data[k].url] \o <<>>

\* s is urls with some entries left out
RECURSIVE IsSubsequence(_, _)
IsSubsequence(s, t) ==
    IF Len(s) = 0 THEN TRUE
    ELSE IF Len(t) = 0 THEN FALSE
    ELSE IF s[1] = t[1] THEN IsSubsequence(Tail(s), Tail(t))
    ELSE IsSubsequence(s, Tail(t))

\* the lines of the input that start with a scheme, trimmed, in input order
RECURSIVE SchemeLines(_)
SchemeLines(lines) ==
    IF Len(lines) = 0 THEN <<>>
    ELSE (IF StartsWith(lines[1], "http://") \/ StartsWith(lines[1], "https://")
          THEN <<Strip(lines[1])>> ELSE <<>>) \o SchemeLines(Tail(lines))

C25_LinesLeftOut ==
    /\ pc = "collected"
    /\ urls_input = <<" https://d", "ftp://c", "http://b ">>
    /\ urls = <<"http://b">>
    /\ url_index = 1

(***************************************************************************)
(* Description: an element found by more than one selector.                *)
(***************************************************************************)
\* what the description holds when every candidate element puts its text in once,
\* followed by a space, and the meta content likewise
LengthOnceEach ==
    Sum([i \in DOMAIN soup |->
           IF i \in CandidateElements THEN Len(StrippedText(soup, i)) + 1 ELSE 0] \o <<>>)
      + (IF MetaBlock = <<>> THEN 0 ELSE Len(MetaBlock[1]) + 1)

\* C26: each qualifying element contributes its text to the description at most
\* once, also when more than one description selector finds it: the description
\* is no longer than the texts of the qualifying elements and the meta content,
\* each taken once with its separating space.
C26_EachElementOnce ==
    Extracted =>
        \/ product_data.description = ""
        \/ Len(product_data.description) + 1 <= LengthOnceEach

\* one element of class product-description: its text is in the description twice
C26_TextRepeatedReached ==
    /\ Extracted
    /\ Len(soup) = 1
    /\ soup[1].class = "product-description"
    /\ CandidateElements = {1}
    /\ product_data.description = StrippedText(soup, 1) \o " " \o StrippedText(soup, 1)
    /\ Len(product_data.description) + 1 = 2 * LengthOnceEach

====
